---- MODULE Spec2Model ----
(***************************************************************************)
(* DaisyExamples: the note engine, PRNG and noise table of the patches     *)
(*   patch/Randos/Randos.cpp            (stepped random generator)         *)
(*   patch/FractalZoom/FractalZoom.cpp  (5 s fBm note, "FractalZoom")      *)
(*                                                                         *)
(* One firmware image runs at a time: the variable prog names it.  Each    *)
(* MIDI event handled by HandleMidi and each frame of AudioCallback's      *)
(* loop is one step.                                                       *)
(*                                                                         *)
(* Numbers.  A float is held as the integer number of quanta of 2^-26 it   *)
(* equals (F32One quanta = 1.0f); every float operation is the exact       *)
(* operation followed by RoundF32, IEEE-754 binary32 round-to-nearest-     *)
(* even.  A uint32_t is held as the pair <<high 16 bits, low 16 bits>>.    *)
(***************************************************************************)
EXTENDS Integers, Sequences, FiniteSets, TLC

VARIABLES
    prog,           \* which program runs: "Randos", "FractalZoom", or the
                    \*   name of a driver of one function or class
    g_note,         \* ActiveNote g_note of the running patch
    gate,           \* level last written to gatePin by SetGate
    g_rootIndex,    \* Randos: 0 => None, 1..12 => C..B
    g_justOn,       \* Randos: just-intonation switch
    g_zoomFactor,   \* FractalZoom: zoom factor captured at note-on (float)
    g_zoomPoint,    \* FractalZoom: zoom point captured at note-on (float)
    knob0,          \* FractalZoom: patch.controls[0] as read by Process()
    knob1,          \* FractalZoom: patch.controls[1] as read by Process()
    s_perm,         \* FractalZoom: uint8_t s_perm[512], indexed from 0
    elapsed,        \* history: frames processed with the voice on since the
                    \*   last NoteOn; calls made, for a driver
    ev,             \* history: the step just taken and the state before it
    arg,            \* drivers: the argument of the next call (Rand01: the
                    \*   seed), or the object under test (the SlewLimiter)
    res             \* drivers: the last call's argument and results; for
                    \*   the SlewLimiter [ret, sets, from]: what Process()
                    \*   last returned, the retargets made, and value_ as
                    \*   the last retarget left it

vars == <<prog, g_note, gate, g_rootIndex, g_justOn, g_zoomFactor,
          g_zoomPoint, knob0, knob1, s_perm, elapsed, ev, arg, res>>

----------------------------------------------------------------------------
(* Bounds of the model *)

\* patch.AudioSampleRate(), in Hz.  The hardware runs at 48000; the model
\* runs the same float arithmetic at a rate whose sums fit TLC's integers.
SampleRate == 5

\* Randos: frames modelled per note (the voice has no duration of its own).
MaxFrames == 6

\* Rand01 driver: calls chained from one starting seed.
MaxChain == 8

----------------------------------------------------------------------------
(* binary32 arithmetic on quanta of 2^-26 *)

F32One == 2^26

\* Spacing of the binary32 numbers around v >= 0 (in the unit v is counted
\* in): 24 significant bits are kept.
RECURSIVE Ulp(_)
Ulp(v) == IF v < 2^24 THEN 1 ELSE 2 * Ulp(v \div 2)

\* Round-to-nearest, ties-to-even, of the exact value num/den >= 0.
RoundRatio(num, den) ==
    LET u   == Ulp(num \div den)
        m   == num \div (den * u)
        rem == num - m * den * u
    IN  IF 2 * rem < den * u THEN m * u
        ELSE IF 2 * rem > den * u THEN (m + 1) * u
        ELSE IF m % 2 = 0 THEN m * u ELSE (m + 1) * u

RoundF32(v) == RoundRatio(v, 1)

\* a + b and a - b in binary32
F32Add(a, b) == RoundF32(a + b)
F32Sub(a, b) == RoundF32(a - b)

\* a / n in binary32, n a whole number held exactly (a sample rate)
F32DivInt(a, n) == RoundRatio(a, n)

----------------------------------------------------------------------------
(* uint32_t as <<hi, lo>>, 16 bits each *)

U32(x) == <<x \div 65536, x % 65536>>

\* (a + b) mod 2^32
U32Add(a, b) ==
    LET lo == a[2] + b[2]
    IN  <<(a[1] + b[1] + (lo \div 65536)) % 65536, lo % 65536>>

\* (a * k) mod 2^32 for a constant k < 2^31 whose low half is below 2^15
U32MulConst(a, k) ==
    LET kh == k \div 65536
        kl == k % 65536
        p0 == a[2] * kl
    IN  <<((p0 \div 65536) + ((a[1] * kl) % 65536) + ((a[2] * kh) % 65536)) % 65536,
          p0 % 65536>>

\* x >> 8, a value below 2^24
U32Shr8(a) == (a[1] * 256) + (a[2] \div 256)

----------------------------------------------------------------------------
(* Randos.cpp: the linear-congruential generator *)

LCG_MUL == 1664525
LCG_INC == 1013904223

\* LCG_Next(uint32_t &seed): the new seed (also the value returned)
LCG_Next(seed) == U32Add(U32MulConst(seed, LCG_MUL), U32(LCG_INC))

\* float(r) for an unsigned r: the nearest binary32
UIntToF32(r) == RoundF32(r)

\* Mutant of Rand01: the shift is by 7, so 25 bits reach the conversion
Rand01_Shr7(seed) ==
    LET s == LCG_Next(seed)
    IN  [seed |-> s, ret |-> UIntToF32((2 * U32Shr8(s)) + ((s[2] \div 128) % 2))]

\* Rand01(uint32_t &seed): the seed left behind and the float returned, the
\* latter counted in units of 2^-24 (float(r) * (1.0f / 16777216.0f) only
\* lowers the exponent by 24).
Rand01(seed) ==
    LET s == LCG_Next(seed)
    IN  [seed |-> s, ret |-> UIntToF32(U32Shr8(s))]

----------------------------------------------------------------------------
(* FractalZoom.cpp: the permutation table *)

\* The initializer list of s_permRef[256] as written in the source.
s_permRefInit == <<
     151, 160, 137, 91, 90, 15, 131, 13, 201, 95, 96, 53, 194, 233, 7, 225,
     140, 36, 103, 30, 69, 142, 8, 99, 37, 240, 21, 10, 23, 190, 6, 148,
     247, 120, 234, 75, 0, 26, 197, 62, 94, 252, 219, 203, 117, 35, 11, 32,
     57, 177, 33, 88, 237, 149, 56, 87, 174, 20, 125, 136, 171, 168, 68,
     175, 74, 165, 71, 134, 139, 48, 27, 166, 77, 146, 158, 231, 83, 111,
     229, 122, 60, 211, 133, 230, 220, 105, 92, 41, 55, 46, 245, 40, 244,
     102, 143, 54, 65, 25, 63, 161, 1, 216, 80, 73, 209, 76, 132, 187,
     208, 89, 18, 169, 200, 196, 135, 130, 116, 188, 159, 86, 164, 100,
     109, 198, 173, 186, 3, 64, 52, 217, 226, 250, 124, 123, 5, 202,
     38, 147, 118, 126, 255, 82, 85, 212, 207, 206, 59, 227, 47, 16, 58,
     17, 182, 189, 28, 42, 223, 183, 170, 213, 119, 248, 152, 2, 44,
     154, 163, 70, 221, 153, 101, 155, 167, 43, 172, 9, 129, 22, 39,
     253, 19, 98, 108, 110, 79, 113, 224, 232, 178, 185, 112, 104, 218,
     246, 97, 228, 251, 34, 242, 193, 238, 210, 144, 12, 191, 179, 162,
     241, 81, 51, 145, 235, 249, 14, 239, 107, 49, 192, 214, 31, 181,
     199, 106, 157, 184, 84, 204, 176, 115, 121, 50, 45, 127, 4,
     150, 254, 138, 236, 205, 93, 222, 114, 67, 29, 24, 72, 243, 141,
     128, 195, 78, 66, 215
    >>

\* static const uint8_t s_permRef[256] = {...}: elements the initializer
\* list does not reach are zero-initialized.
s_permRef ==
    [i \in 0..255 |-> IF i < Len(s_permRefInit) THEN s_permRefInit[i + 1] ELSE 0]

\* InitPerlinPermutation(): s_perm[i] = s_perm[i+256] = s_permRef[i]
InitPerlinPermutation ==
    [i \in 0..511 |-> IF i < 256 THEN s_permRef[i] ELSE s_permRef[i - 256]]

----------------------------------------------------------------------------
(* Inputs *)

\* msg.data[0] & 0x7F of the MIDI events the model delivers
Notes == {0, 60, 127}

\* msg.data[1] & 0x7F of the NoteOn events the model delivers
Velocities == {0, 100}

\* Randos: stepFreq = minFreq * powf(ratio, ctrl0), a float in
\* [0.3333, 30] Hz set by knob 0; the model delivers 1 Hz and 4 Hz, both
\* below the sample rate as on the hardware.
StepFreqs == {F32One, 4 * F32One}

\* FractalZoom: positions of knobs 0 and 1 (0, 0.5 and 1.0)
KnobPositions == {0, F32One \div 2, F32One}

----------------------------------------------------------------------------
(* patch/Randos/Randos.cpp *)

SEED_MUL == 12345
SEED_ADD == 99999

\* static ActiveNote g_note = {false, 0, 0, 0.f};
Randos_NoteInit == [on |-> FALSE, midinote |-> 0, seed |-> U32(0), phase |-> 0]

\* The note engine's state: g_note and the gate pin
Randos_St == [note |-> g_note, gate |-> gate]

\* Mutant of Randos_NoteOn: a NoteOn on a sounding voice keeps the running
\* seed and phase (only an idle voice is reseeded)
Randos_NoteOn_KeepsSeed(st, n, vel) ==
    IF vel > 0
    THEN [note |-> [on       |-> TRUE,
                    midinote |-> n,
                    seed     |-> IF st.note.on THEN st.note.seed
                                 ELSE U32(n * SEED_MUL + SEED_ADD),
                    phase    |-> IF st.note.on THEN st.note.phase ELSE 0],
          gate |-> TRUE]
    ELSE IF st.note.midinote = n
         THEN [note |-> [st.note EXCEPT !.on = FALSE], gate |-> FALSE]
         ELSE st

\* Mutant of Randos_NoteOn: the seed's two constants are swapped
Randos_NoteOn_SwappedSeed(st, n, vel) ==
    IF vel > 0
    THEN [note |-> [on       |-> TRUE,
                    midinote |-> n,
                    seed     |-> U32(n * SEED_ADD + SEED_MUL),
                    phase    |-> 0],
          gate |-> TRUE]
    ELSE IF st.note.midinote = n
         THEN [note |-> [st.note EXCEPT !.on = FALSE], gate |-> FALSE]
         ELSE st

\* Mutant of Randos_NoteOn: velocity 0 ends the voice whatever its note
Randos_NoteOn_Vel0EndsAny(st, n, vel) ==
    IF vel > 0
    THEN [note |-> [on       |-> TRUE,
                    midinote |-> n,
                    seed     |-> U32(n * SEED_MUL + SEED_ADD),
                    phase    |-> 0],
          gate |-> TRUE]
    ELSE [note |-> [st.note EXCEPT !.on = FALSE], gate |-> FALSE]

\* HandleMidi, case NoteOn (n = data[0] & 0x7F, vel = data[1] & 0x7F)
Randos_NoteOn(st, n, vel) ==
    IF vel > 0
    THEN [note |-> [on       |-> TRUE,
                    midinote |-> n,
                    seed     |-> U32(n * SEED_MUL + SEED_ADD),
                    phase    |-> 0],
          gate |-> TRUE]
    ELSE IF st.note.midinote = n
         THEN [note |-> [st.note EXCEPT !.on = FALSE], gate |-> FALSE]
         ELSE st

\* Mutant of Randos_NoteOff: the note number is not compared
Randos_NoteOff_AnyNote(st, n) ==
    IF st.note.on
    THEN [note |-> [st.note EXCEPT !.on = FALSE], gate |-> FALSE]
    ELSE st

\* HandleMidi, case NoteOff
Randos_NoteOff(st, n) ==
    IF st.note.on /\ st.note.midinote = n
    THEN [note |-> [st.note EXCEPT !.on = FALSE], gate |-> FALSE]
    ELSE st

\* JustRandomFreq(seed, baseFreq): two draws, the scale index and the octave.
\* Returned: the seed left behind and the two draws.
JustRandomFreq(seed) ==
    LET r1 == Rand01(seed)
        r2 == Rand01(r1.seed)
    IN  [seed |-> r2.seed, draws |-> <<r1.ret, r2.ret>>]

\* Mutant of RandomQuantizedFreq: the just switch is looked at before the
\* root
RandomQuantizedFreq_JustFirst(seed, rootIndex, justOn) ==
    IF justOn
    THEN JustRandomFreq(seed)
    ELSE LET r == Rand01(seed) IN [seed |-> r.seed, draws |-> <<r.ret>>]

\* RandomQuantizedFreq(seed): one draw when the root is None or the scale is
\* 12-TET, two when it is just.  Returned: the seed left behind and the
\* draws the frequency is computed from.
RandomQuantizedFreq(seed, rootIndex, justOn) ==
    IF rootIndex = 0
    THEN LET r == Rand01(seed) IN [seed |-> r.seed, draws |-> <<r.ret>>]
    ELSE IF justOn
         THEN JustRandomFreq(seed)
         ELSE LET r == Rand01(seed) IN [seed |-> r.seed, draws |-> <<r.ret>>]

\* AudioCallback: inc = stepFreq / sr
Randos_Inc(stepFreq) == F32DivInt(stepFreq, SampleRate)

\* AudioCallback, one pass of the frame loop: g_note after it.  On a wrap
\* the pitch target is drawn first, then the CV2 target, then the CV1 one.
Randos_Frame(note, inc, rootIndex, justOn) ==
    IF ~note.on
    THEN note
    ELSE LET p == F32Add(note.phase, inc)
         IN  IF p >= F32One
             THEN LET f  == RandomQuantizedFreq(note.seed, rootIndex, justOn)
                      r2 == Rand01(f.seed)
                      r1 == Rand01(r2.seed)
                  IN  [note EXCEPT !.phase = F32Sub(p, F32One),
                                   !.seed  = r1.seed]
             ELSE [note EXCEPT !.phase = p]

----------------------------------------------------------------------------
(* patch/FractalZoom/FractalZoom.cpp *)

\* static ActiveNote g_note = {false, 0.f, 5.f};
FZ_NoteInit == [on |-> FALSE, phase |-> 0, duration |-> 5 * F32One]

\* powf(3.f, k0) at the knob positions the model delivers
\* (3^0.5 = 1.7320508f = 14529495 * 2^-23)
powf3(k0) ==
    CASE k0 = 0             -> F32One
      [] k0 = F32One \div 2 -> 14529495 * 8
      [] k0 = F32One        -> 3 * F32One

\* k1 * 5.f
FZ_ZoomPoint(k1) == RoundF32(k1 * 5)

\* The note engine's state: g_note, the gate pin and the captured zoom
FZ_St == [note |-> g_note, gate |-> gate,
          zoomFactor |-> g_zoomFactor, zoomPoint |-> g_zoomPoint]

\* HandleMidi, case NoteOn; k0 and k1 are what the two knobs read
FZ_NoteOn(st, vel, k0, k1) ==
    IF vel > 0
    THEN [note       |-> [st.note EXCEPT !.on = TRUE, !.phase = 0],
          gate       |-> TRUE,
          zoomFactor |-> powf3(k0),
          zoomPoint  |-> FZ_ZoomPoint(k1)]
    ELSE [st EXCEPT !.note.on = FALSE, !.gate = FALSE]

\* Mutant of FZ_NoteOff: the end of a note puts the zoom back to its defaults
FZ_NoteOff_ResetsZoom(st) ==
    [st EXCEPT !.note.on = FALSE, !.gate = FALSE,
               !.zoomFactor = F32One, !.zoomPoint = 0]

\* HandleMidi, case NoteOff
FZ_NoteOff(st) == [st EXCEPT !.note.on = FALSE, !.gate = FALSE]

\* AudioCallback: inc = 1.f / sr
FZ_Inc == F32DivInt(F32One, SampleRate)

\* Mutant of FZ_Frame: the timeout clears g_note.on and leaves the gate
FZ_Frame_NoGateDrop(st) ==
    IF ~st.note.on
    THEN st
    ELSE LET p == F32Add(st.note.phase, FZ_Inc)
         IN  IF p >= st.note.duration
             THEN [st EXCEPT !.note.phase = p, !.note.on = FALSE]
             ELSE [st EXCEPT !.note.phase = p]

\* Mutant of FZ_Frame: the phase is never compared with the duration
FZ_Frame_NoEnd(st) ==
    IF ~st.note.on
    THEN st
    ELSE [st EXCEPT !.note.phase = F32Add(st.note.phase, FZ_Inc)]

\* Mutant of FZ_Frame: the timeout rewinds the phase
FZ_Frame_Rewinds(st) ==
    IF ~st.note.on
    THEN st
    ELSE LET p == F32Add(st.note.phase, FZ_Inc)
         IN  IF p >= st.note.duration
             THEN [st EXCEPT !.note.phase = 0, !.note.on = FALSE, !.gate = FALSE]
             ELSE [st EXCEPT !.note.phase = p]

\* AudioCallback, one pass of the frame loop
FZ_Frame(st) ==
    IF ~st.note.on
    THEN st
    ELSE LET p == F32Add(st.note.phase, FZ_Inc)
         IN  IF p >= st.note.duration
             THEN [st EXCEPT !.note.phase = p, !.note.on = FALSE, !.gate = FALSE]
             ELSE [st EXCEPT !.note.phase = p]

----------------------------------------------------------------------------
(* History record of a step *)

Event(kind, n, vel, inc, pre) ==
    [kind |-> kind, note |-> n, vel |-> vel, inc |-> inc, pre |-> pre]

----------------------------------------------------------------------------
(* Randos: steps *)

\* main() up to StartAudio: SetGate(false), g_note and the UI globals as
\* statically initialized.
Randos_Init ==
    /\ prog = "Randos"
    /\ g_note = Randos_NoteInit
    /\ gate = FALSE
    /\ g_rootIndex = 0
    /\ g_justOn = FALSE
    /\ g_zoomFactor = 0 /\ g_zoomPoint = 0 /\ knob0 = 0 /\ knob1 = 0
    /\ s_perm = <<>>
    /\ elapsed = 0
    /\ ev = Event("Init", 0, 0, 0, [note |-> Randos_NoteInit, gate |-> FALSE])
    /\ arg = <<>> /\ res = <<>>

Randos_MidiNoteOn ==
    /\ prog = "Randos"
    /\ \E n \in Notes, vel \in Velocities :
          LET st == Randos_NoteOn(Randos_St, n, vel)
          IN  /\ g_note' = st.note
              /\ gate' = st.gate
              /\ elapsed' = IF vel > 0 THEN 0 ELSE elapsed
              /\ ev' = Event("NoteOn", n, vel, 0, Randos_St)
    /\ UNCHANGED <<prog, g_rootIndex, g_justOn, g_zoomFactor, g_zoomPoint,
                   knob0, knob1, s_perm, arg, res>>

Randos_MidiNoteOff ==
    /\ prog = "Randos"
    /\ \E n \in Notes :
          LET st == Randos_NoteOff(Randos_St, n)
          IN  /\ g_note' = st.note
              /\ gate' = st.gate
              /\ ev' = Event("NoteOff", n, 0, 0, Randos_St)
    /\ UNCHANGED <<prog, g_rootIndex, g_justOn, g_zoomFactor, g_zoomPoint,
                   knob0, knob1, s_perm, elapsed, arg, res>>

Randos_AudioFrame ==
    /\ prog = "Randos"
    /\ g_note.on => elapsed < MaxFrames
    /\ \E sf \in StepFreqs :
          /\ g_note' = Randos_Frame(g_note, Randos_Inc(sf), g_rootIndex, g_justOn)
          /\ ev' = Event("Frame", 0, 0, Randos_Inc(sf), Randos_St)
    /\ elapsed' = IF g_note.on THEN elapsed + 1 ELSE elapsed
    /\ UNCHANGED <<prog, gate, g_rootIndex, g_justOn, g_zoomFactor,
                   g_zoomPoint, knob0, knob1, s_perm, arg, res>>

----------------------------------------------------------------------------
(* FractalZoom: steps *)

\* main() up to StartAudio: SetGate(false), InitPerlinPermutation()
FZ_Init ==
    /\ prog = "FractalZoom"
    /\ g_note = FZ_NoteInit
    /\ gate = FALSE
    /\ g_rootIndex = 0
    /\ g_justOn = FALSE
    /\ g_zoomFactor = F32One
    /\ g_zoomPoint = 0
    /\ knob0 \in KnobPositions
    /\ knob1 \in KnobPositions
    /\ s_perm = InitPerlinPermutation
    /\ elapsed = 0
    /\ ev = Event("Init", 0, 0, 0,
                  [note |-> FZ_NoteInit, gate |-> FALSE,
                   zoomFactor |-> F32One, zoomPoint |-> 0])
    /\ arg = <<>> /\ res = <<>>

FZ_Set(st) ==
    /\ g_note' = st.note
    /\ gate' = st.gate
    /\ g_zoomFactor' = st.zoomFactor
    /\ g_zoomPoint' = st.zoomPoint

\* res is history here: the note number of the NoteOn that started the
\* voice, which the program does not keep
FZ_MidiNoteOn ==
    /\ prog = "FractalZoom"
    /\ \E n \in Notes, vel \in Velocities :
          /\ FZ_Set(FZ_NoteOn(FZ_St, vel, knob0, knob1))
          /\ elapsed' = IF vel > 0 THEN 0 ELSE elapsed
          /\ ev' = Event("NoteOn", n, vel, 0, FZ_St)
          /\ res' = IF vel > 0 THEN [started |-> n] ELSE res
    /\ UNCHANGED <<prog, g_rootIndex, g_justOn, knob0, knob1, s_perm, arg>>

FZ_MidiNoteOff ==
    /\ prog = "FractalZoom"
    /\ \E n \in Notes :
          /\ FZ_Set(FZ_NoteOff(FZ_St))
          /\ ev' = Event("NoteOff", n, 0, 0, FZ_St)
    /\ UNCHANGED <<prog, g_rootIndex, g_justOn, knob0, knob1, s_perm,
                   elapsed, arg, res>>

FZ_AudioFrame ==
    /\ prog = "FractalZoom"
    /\ FZ_Set(FZ_Frame(FZ_St))
    /\ elapsed' = IF g_note.on THEN elapsed + 1 ELSE elapsed
    /\ ev' = Event("Frame", 0, 0, FZ_Inc, FZ_St)
    /\ UNCHANGED <<prog, g_rootIndex, g_justOn, knob0, knob1, s_perm, arg, res>>

\* The player turns knob 0 or knob 1: what controls[i].Process() returns changes
FZ_TurnKnob ==
    /\ prog = "FractalZoom"
    /\ \E k0 \in KnobPositions, k1 \in KnobPositions :
          /\ <<k0, k1>> # <<knob0, knob1>>
          /\ knob0' = k0
          /\ knob1' = k1
    /\ ev' = Event("Knob", 0, 0, 0, FZ_St)
    /\ UNCHANGED <<prog, g_note, gate, g_rootIndex, g_justOn, g_zoomFactor,
                   g_zoomPoint, s_perm, elapsed, arg, res>>

----------------------------------------------------------------------------
(* The two patches *)

Init == Randos_Init \/ FZ_Init

Next ==
    \/ Randos_MidiNoteOn
    \/ Randos_MidiNoteOff
    \/ Randos_AudioFrame
    \/ FZ_MidiNoteOn
    \/ FZ_MidiNoteOff
    \/ FZ_AudioFrame
    \/ FZ_TurnKnob

Spec == Init /\ [][Next]_vars

----------------------------------------------------------------------------
(* Rand01 on its own: calls chained from chosen seeds *)

\* Seeds the driver starts from: the ends of the range, both halves'
\* carries, the seeds whose successors are 0, 0xFF, 0xFFFFFF00, 0x80000000
\* and 0xFFFFFFFF, and the seeds of notes 0, 60 and 127.
Rand01Seeds ==
    { <<0, 0>>, <<0, 1>>, <<0, 65535>>, <<1, 0>>, <<32767, 65535>>,
      <<32768, 0>>, <<65535, 65535>>,
      <<9686, 4069>>, <<1870, 31776>>, <<17789, 19173>>, <<42454, 4069>>,
      <<9973, 46880>>,
      U32(99999), U32(840699), U32(1667814) }

Rand01_Init ==
    /\ prog = "Rand01"
    /\ arg \in Rand01Seeds
    /\ res = <<>>
    /\ elapsed = 0
    /\ g_note = <<>> /\ gate = FALSE /\ g_rootIndex = 0 /\ g_justOn = FALSE
    /\ g_zoomFactor = 0 /\ g_zoomPoint = 0 /\ knob0 = 0 /\ knob1 = 0
    /\ s_perm = <<>>
    /\ ev = Event("Init", 0, 0, 0, <<>>)

Rand01_Call ==
    /\ prog = "Rand01"
    /\ elapsed < MaxChain
    /\ LET r == Rand01(arg)
       IN  /\ res' = [in |-> arg, seed |-> r.seed, ret |-> r.ret]
           /\ arg' = r.seed
    /\ elapsed' = elapsed + 1
    /\ ev' = Event("Rand01", 0, 0, 0, <<>>)
    /\ UNCHANGED <<prog, g_note, gate, g_rootIndex, g_justOn, g_zoomFactor,
                   g_zoomPoint, knob0, knob1, s_perm>>

SpecRand01 == Rand01_Init /\ [][Rand01_Call]_vars

----------------------------------------------------------------------------
(* binary32 with its full exponent range, for the slew limiters and the    *)
(* quantizers.  A float is the record [m, e] standing for m * 2^e, m an    *)
(* odd integer of at most 24 bits (or 0, with e = 0): every binary32       *)
(* number, subnormals included, has exactly one such record.  Infinity is  *)
(* held as +-1 * 2^128, the value at which rounding overflows; the NaN of  *)
(* 0/0 is FlNaN.  The sign of zero is not kept.                            *)

\* exponent of the smallest subnormal, 2^-149, and of the overflow threshold
FlMinExp == 0 - (126 + 23)
FlInfExp == 127 + 1

Fl(m, e) == [m |-> m, e |-> e]
FlZero == Fl(0, 0)
FlNaN == Fl(0, FlInfExp + 1)
FlIsNaN(a) == a = FlNaN

IAbs(x) == IF x < 0 THEN 0 - x ELSE x
IMax(x, y) == IF x >= y THEN x ELSE y

\* number of significant bits of a >= 0
RECURSIVE Bits(_)
Bits(a) == IF a = 0 THEN 0 ELSE 1 + Bits(a \div 2)

\* the record of m * 2^e, m any integer
RECURSIVE FlCanon(_, _)
FlCanon(m, e) ==
    IF m = 0 THEN FlZero
    ELSE IF m % 2 = 0 THEN FlCanon(m \div 2, e + 1)
    ELSE Fl(m, e)

FlInf(neg) == Fl(IF neg THEN 0 - 1 ELSE 1, FlInfExp)

\* Round-to-nearest, ties-to-even, of +-(a + f) * 2^e, where a >= 0 is an
\* integer below 2^31 and 0 < f < 1 if sticky, f = 0 otherwise.  With sticky
\* set a must carry a guard bit (a >= 2^24).
FlRound(neg, a, e, sticky) ==
    LET k == IMax(IMax(Bits(a) - 24, FlMinExp - e), 0)
    IN  IF k > 31 THEN FlZero
        ELSE IF k = 0 THEN FlCanon(IF neg THEN 0 - a ELSE a, e)
        ELSE LET half == 2^(k - 1)
                 t    == a \div half
                 q    == t \div 2
                 s    == sticky \/ (a % half) # 0
                 up   == (t % 2) = 1 /\ (s \/ (q % 2) = 1)
                 r    == IF up THEN q + 1 ELSE q
             IN  IF r # 0 /\ Bits(r) + e + k > FlInfExp
                 THEN FlInf(neg)
                 ELSE FlCanon(IF neg THEN 0 - r ELSE r, e + k)

\* position of the leading bit of a # 0: |a| < 2^FlTop(a)
FlTop(a) == a.e + Bits(IAbs(a.m))

FlNeg(a) == Fl(0 - a.m, a.e)
FlAbs(a) == Fl(IAbs(a.m), a.e)

\* a + b: both are brought to one exponent e0, the lesser operand losing
\* the bits below it into the sticky flag
FlAdd(a, b) ==
    IF a.m = 0 THEN b
    ELSE IF b.m = 0 THEN a
    ELSE LET x  == IF FlTop(a) >= FlTop(b) THEN a ELSE b
             y  == IF FlTop(a) >= FlTop(b) THEN b ELSE a
             e0 == IMax(IF x.e <= y.e THEN x.e ELSE y.e, FlTop(x) - 29)
             xs == x.m * 2^(x.e - e0)
             sh == e0 - y.e
             ys == IF sh <= 0 THEN y.m * 2^(0 - sh)
                   ELSE IF sh > 30 THEN (IF y.m < 0 THEN 0 - 1 ELSE 0)
                   ELSE y.m \div 2^sh
             st == sh > 0
             sm == xs + ys
         IN  IF sm >= 0 THEN FlRound(FALSE, sm, e0, st)
             ELSE IF st THEN FlRound(TRUE, (0 - sm) - 1, e0, TRUE)
             ELSE FlRound(TRUE, 0 - sm, e0, FALSE)

FlSub(a, b) == FlAdd(a, FlNeg(b))

\* comparisons (false on a NaN, as in C)
FlGt(a, b) == ~FlIsNaN(a) /\ ~FlIsNaN(b) /\ FlSub(a, b).m > 0
FlLt(a, b) == FlGt(b, a)
FlGe(a, b) == ~FlIsNaN(a) /\ ~FlIsNaN(b) /\ FlSub(a, b).m >= 0
FlLe(a, b) == FlGe(b, a)

\* <<floor((acc + x*y) / 2^d), whether bits were dropped>>, one bit of y at
\* a time
RECURSIVE MulShr(_, _, _, _, _)
MulShr(acc, x, y, d, st) ==
    IF d = 0 THEN <<acc + x * y, st>>
    ELSE LET s == acc + x * (y % 2)
         IN  MulShr(s \div 2, x, y \div 2, d - 1, st \/ (s % 2) = 1)

\* a * b
FlMul(a, b) ==
    IF a.m = 0 \/ b.m = 0 THEN FlZero
    ELSE LET x == IAbs(a.m)
             y == IAbs(b.m)
             d == IMax(Bits(x) + Bits(y) - 30, 0)
             p == MulShr(0, x, y, d, FALSE)
         IN  FlRound((a.m < 0) # (b.m < 0), p[1], a.e + b.e + d, p[2])

\* <<the first n bits of rem / y after the binary point, the remainder>>,
\* rem < y
RECURSIVE LongDiv(_, _, _, _)
LongDiv(rem, y, n, q) ==
    IF n = 0 THEN <<q, rem>>
    ELSE IF 2 * rem >= y THEN LongDiv(2 * rem - y, y, n - 1, 2 * q + 1)
    ELSE LongDiv(2 * rem, y, n - 1, 2 * q)

\* a / b under IEEE 754: x/0 is an infinity, 0/0 a NaN
FlDiv(a, b) ==
    IF b.m = 0 THEN (IF a.m = 0 THEN FlNaN ELSE FlInf(a.m < 0))
    ELSE IF a.m = 0 THEN FlZero
    ELSE LET sa == 24 - Bits(IAbs(a.m))
             sb == 24 - Bits(IAbs(b.m))
             x  == IAbs(a.m) * 2^sa
             y  == IAbs(b.m) * 2^sb
             d  == LongDiv(x % y, y, 26, x \div y)
         IN  FlRound((a.m < 0) # (b.m < 0), d[1],
                     ((a.e - sa) - (b.e - sb)) - 26, d[2] # 0)

\* (float)n for an int n of at most 24 bits
IntToFl(n) == FlCanon(n, 0)

----------------------------------------------------------------------------
(* class SlewLimiter, as written three times: Randos.cpp,                  *)
(* patch/FractalZoom/FractalZoom.cpp ("FractalZoom") and                   *)
(* pod/FractalZoom/FractalZoom.cpp ("Pod").  An object is the record       *)
(* [impl, sr, value, dest, rise, fall] of its class and its five floats.   *)

SlewImpls == {"Randos", "FractalZoom", "Pod"}

FlOne == Fl(1, 0)
FlHalf == Fl(1, 0 - 1)

\* the literals 0.01f, 0.02f, 0.03f and 1.0e-6f
Fl_0_01 == Fl(5368709, 0 - 29)
Fl_0_02 == Fl(5368709, 0 - 28)
Fl_0_03 == Fl(16106127, 0 - 29)
Fl_1e_6 == Fl(8796093, 0 - 43)

\* Init(samplerate)
SlewLimiter_Init(impl, samplerate) ==
    [impl  |-> impl,
     sr    |-> samplerate,
     value |-> FlZero,
     dest  |-> FlZero,
     rise  |-> IF impl = "Pod" THEN Fl_0_02 ELSE Fl_0_01,
     fall  |-> IF impl = "Pod" THEN Fl_0_03 ELSE Fl_0_01]

SetRiseTime(sl, t) == [sl EXCEPT !.rise = t]
SetFallTime(sl, t) == [sl EXCEPT !.fall = t]
SetRiseFall(sl, t) == [sl EXCEPT !.rise = t, !.fall = t]
SetValue(sl, v) == [sl EXCEPT !.value = v, !.dest = v]
SetDest(sl, d) == [sl EXCEPT !.dest = d]

\* Mutant of Randos_Process: the step is added without the comparison
Randos_Process_NoSnap(sl) ==
    LET diff == FlSub(sl.dest, sl.value)
        time == IF diff.m > 0 THEN sl.rise ELSE sl.fall
    IN  IF diff.m = 0 THEN sl
        ELSE [sl EXCEPT !.value = FlAdd(sl.value,
                                        FlDiv(diff, FlMul(time, sl.sr)))]

\* Process() of Randos.cpp; the return value is the new value_
Randos_Process(sl) ==
    LET diff == FlSub(sl.dest, sl.value)
    IN  IF FlGt(diff, FlZero)
        THEN LET step == FlDiv(diff, FlMul(sl.rise, sl.sr))
             IN  IF FlGt(FlAbs(step), FlAbs(diff))
                 THEN [sl EXCEPT !.value = sl.dest]
                 ELSE [sl EXCEPT !.value = FlAdd(sl.value, step)]
        ELSE IF FlLt(diff, FlZero)
        THEN LET step == FlDiv(diff, FlMul(sl.fall, sl.sr))
             IN  IF FlGt(FlAbs(step), FlAbs(diff))
                 THEN [sl EXCEPT !.value = sl.dest]
                 ELSE [sl EXCEPT !.value = FlAdd(sl.value, step)]
        ELSE sl

\* Mutant of FZ_Process: a zero time*sr is skipped instead of divided by
FZ_Process_SkipZero(sl) ==
    LET diff == FlSub(sl.dest, sl.value)
        time == IF diff.m > 0 THEN sl.rise ELSE sl.fall
        step == FlDiv(diff, FlMul(time, sl.sr))
    IN  IF diff.m = 0 \/ FlMul(time, sl.sr) = FlZero THEN sl
        ELSE IF FlGt(FlAbs(step), FlAbs(diff))
        THEN [sl EXCEPT !.value = sl.dest]
        ELSE [sl EXCEPT !.value = FlAdd(sl.value, step)]

\* Process() of patch/FractalZoom/FractalZoom.cpp
FZ_Process(sl) ==
    LET diff == FlSub(sl.dest, sl.value)
    IN  IF FlGt(diff, FlZero)
        THEN LET step == FlDiv(diff, FlMul(sl.rise, sl.sr))
             IN  IF FlGt(FlAbs(step), FlAbs(diff))
                 THEN [sl EXCEPT !.value = sl.dest]
                 ELSE [sl EXCEPT !.value = FlAdd(sl.value, step)]
        ELSE IF FlLt(diff, FlZero)
        THEN LET step == FlDiv(diff, FlMul(sl.fall, sl.sr))
             IN  IF FlGt(FlAbs(step), FlAbs(diff))
                 THEN [sl EXCEPT !.value = sl.dest]
                 ELSE [sl EXCEPT !.value = FlAdd(sl.value, step)]
        ELSE sl

\* Process() of pod/FractalZoom/FractalZoom.cpp
Pod_Process(sl) ==
    LET diff == FlSub(sl.dest, sl.value)
        time == IF FlGe(diff, FlZero) THEN sl.rise ELSE sl.fall
    IN  IF FlLt(time, Fl_1e_6)
        THEN [sl EXCEPT !.value = sl.dest]
        ELSE LET step == FlDiv(diff, FlMul(time, sl.sr))
             IN  IF FlGt(FlAbs(step), FlAbs(diff))
                 THEN [sl EXCEPT !.value = sl.dest]
                 ELSE [sl EXCEPT !.value = FlAdd(sl.value, step)]

\* Process() of the object's own class
Process(sl) ==
    CASE sl.impl = "Randos"      -> Randos_Process(sl)
      [] sl.impl = "FractalZoom" -> FZ_Process(sl)
      [] sl.impl = "Pod"         -> Pod_Process(sl)

----------------------------------------------------------------------------
(* A SlewLimiter on its own: one object, set up as main() and the first    *)
(* control block do, then retargeted and processed                         *)

\* the literal 0.1f and the sample rate 48000.f of the hardware
Fl_0_1 == Fl(13421773, 0 - 27)
Fl_48000 == IntToFl(48000)

\* a low sample rate, at which a ramp is over within a hundred calls
Fl_4 == IntToFl(4)

\* <<rise, fall>> set at the low rate: time * rate is 0, 1/2, 2, 4 or 6
SlewTimePairs ==
    { <<FlZero, FlZero>>, <<FlZero, FlHalf>>, <<FlHalf, FlZero>>,
      <<FlHalf, FlHalf>>, <<FlOne, FlOne>>, <<Fl(3, 0 - 1), Fl(3, 0 - 1)>>,
      <<FlOne, Fl(3, 0 - 1)>>, <<Fl(1, 0 - 3), Fl(1, 0 - 3)>> }

\* values given to SetValue and SetDest
SlewStarts == {FlZero, Fl(1, 1)}
SlewDests == {FlHalf, FlOne}

\* Retargets (SetDest or SetValue) modelled per object, the number of
\* Process() calls into a ramp up to which a retarget may interrupt it, and
\* the number of Process() calls modelled per ramp.
MaxRetargets == 2
MaxEarly == 2
MaxSlewCalls == 4800

\* the times as the program sets them: SetRiseTime and SetFallTime, or pod's
\* SetRiseFall
SlewSetTimes(sl, rise, fall) ==
    IF sl.impl = "Pod"
    THEN SetRiseFall(sl, rise)
    ELSE SetFallTime(SetRiseTime(sl, rise), fall)

\* The objects the driver starts from: Init(sr), the times optionally set,
\* SetValue(v).  The hardware-rate object is the one of the spec's timing
\* scenario (48 kHz, 0.1 s, value 0).
SlewObjects ==
    { SetValue(SlewSetTimes(SlewLimiter_Init(impl, Fl_4), p[1], p[2]), v) :
          impl \in SlewImpls, p \in SlewTimePairs, v \in SlewStarts }
    \cup { SetValue(SlewLimiter_Init(impl, Fl_4), v) :
          impl \in SlewImpls, v \in SlewStarts }
    \cup { SetValue(SlewSetTimes(SlewLimiter_Init(impl, Fl_48000),
                                 Fl_0_1, Fl_0_1), FlZero) :
          impl \in SlewImpls }

Slew_Init ==
    /\ prog = "Slew"
    /\ arg \in SlewObjects
    /\ res = [ret |-> arg.value, sets |-> 0, from |-> arg.value]
    /\ elapsed = 0
    /\ g_note = <<>> /\ gate = FALSE /\ g_rootIndex = 0 /\ g_justOn = FALSE
    /\ g_zoomFactor = 0 /\ g_zoomPoint = 0 /\ knob0 = 0 /\ knob1 = 0
    /\ s_perm = <<>>
    /\ ev = Event("Init", 0, 0, 0, arg)

\* a retarget is within the model's budget; the hardware-rate object gets
\* the one SetDest(1.0) of the timing scenario
SlewMayRetarget(isDest, x) ==
    /\ res.sets < MaxRetargets
    /\ elapsed <= MaxEarly
    /\ arg.sr = Fl_48000 => (isDest /\ x = FlOne /\ res.sets = 0)

Slew_SetDest ==
    /\ prog = "Slew"
    /\ \E d \in SlewDests :
          /\ SlewMayRetarget(TRUE, d)
          /\ d # arg.dest
          /\ arg' = SetDest(arg, d)
    /\ res' = [res EXCEPT !.sets = res.sets + 1, !.from = arg.value]
    /\ elapsed' = 0
    /\ ev' = Event("SetDest", 0, 0, 0, arg)
    /\ UNCHANGED <<prog, g_note, gate, g_rootIndex, g_justOn, g_zoomFactor,
                   g_zoomPoint, knob0, knob1, s_perm>>

Slew_SetValue ==
    /\ prog = "Slew"
    /\ \E v \in SlewStarts :
          /\ SlewMayRetarget(FALSE, v)
          /\ v # arg.value
          /\ arg' = SetValue(arg, v)
    /\ res' = [res EXCEPT !.sets = res.sets + 1, !.from = arg'.value]
    /\ elapsed' = 0
    /\ ev' = Event("SetValue", 0, 0, 0, arg)
    /\ UNCHANGED <<prog, g_note, gate, g_rootIndex, g_justOn, g_zoomFactor,
                   g_zoomPoint, knob0, knob1, s_perm>>

\* One call of Process().  elapsed counts the calls since the last retarget
\* that moved value_.
Slew_Process ==
    /\ prog = "Slew"
    /\ elapsed < MaxSlewCalls
    /\ arg' = Process(arg)
    /\ res' = [res EXCEPT !.ret = arg'.value]
    /\ elapsed' = IF arg'.value # arg.value THEN elapsed + 1 ELSE elapsed
    /\ ev' = Event("Process", 0, 0, 0, arg)
    /\ UNCHANGED <<prog, g_note, gate, g_rootIndex, g_justOn, g_zoomFactor,
                   g_zoomPoint, knob0, knob1, s_perm>>

SlewNext == Slew_SetDest \/ Slew_SetValue \/ Slew_Process

SpecSlew == Slew_Init /\ [][SlewNext]_vars

----------------------------------------------------------------------------
(* The quantizers and the DAC conversions, as functions of binary32 *)

\* -x for a float written as m * 2^e
FlM(m, e) == FlNeg(Fl(m, e))

\* QuantizeFractal(val) of patch/FractalZoom; 1950.f/4.f is 487.5f
QuantizeFractal(val) ==
    LET lo      == IF FlLt(val, FlM(1, 1)) THEN FlM(1, 1) ELSE val
        clamped == IF FlGt(lo, Fl(1, 1)) THEN Fl(1, 1) ELSE lo
        shifted == FlAdd(clamped, Fl(1, 1))
    IN  FlAdd(IntToFl(50), FlMul(shifted, Fl(975, 0 - 1)))

\* The value RandomQuantizedFreq returns when g_rootIndex is 0, from its one
\* draw r (counted in units of 2^-24, as Rand01 returns it)
UnquantizedFreq(r) ==
    FlAdd(IntToFl(50), FlMul(IntToFl(1950), FlCanon(r, 0 - 24)))

\* floorf(a) and roundf(a) (halves away from zero) as integers, |a| < 2^30
FlFloor(a) ==
    IF a.e >= 0 THEN a.m * 2^a.e
    ELSE IF a.e < 0 - 30 THEN (IF a.m < 0 THEN 0 - 1 ELSE 0)
    ELSE a.m \div 2^(0 - a.e)

FlRoundInt(a) ==
    LET h == IF a.e >= 0 THEN IAbs(a.m) * 2^a.e
             ELSE IF a.e < 0 - 30 THEN 0
             ELSE (IAbs(a.m) + 2^((0 - a.e) - 1)) \div 2^(0 - a.e)
    IN  IF a.m < 0 THEN 0 - h ELSE h

\* pod/FractalZoom: static float gBaseFreq = 55.f, never written
gBaseFreq == IntToFl(55)

\* majorJust7_scale[7], each entry the float quotient the initializer writes
majorJust7_scale ==
    [i \in 0..6 |->
        CASE i = 0 -> FlOne
          [] i = 1 -> FlDiv(IntToFl(9), IntToFl(8))
          [] i = 2 -> FlDiv(IntToFl(5), IntToFl(4))
          [] i = 3 -> FlDiv(IntToFl(4), IntToFl(3))
          [] i = 4 -> FlDiv(IntToFl(3), IntToFl(2))
          [] i = 5 -> FlDiv(IntToFl(5), IntToFl(3))
          [] i = 6 -> FlDiv(IntToFl(15), IntToFl(8))]

\* Mutant of JustMajorStep: the scaled value is rounded, not floored
JustMajorStep_Rounds(fractVal) ==
    LET lo      == IF FlLt(fractVal, FlM(1, 1)) THEN FlM(1, 1) ELSE fractVal
        clamped == IF FlGt(lo, Fl(1, 1)) THEN Fl(1, 1) ELSE lo
        shifted == FlAdd(clamped, Fl(1, 1))
        scaled  == FlMul(shifted, IntToFl(7))
        step    == FlRoundInt(scaled)
    IN  IF step < 0 THEN 0 ELSE IF step > 27 THEN 27 ELSE step

\* QuantizeJustMajor: the step computed from fractVal; 28.f/4.f is 7.f
JustMajorStep(fractVal) ==
    LET lo      == IF FlLt(fractVal, FlM(1, 1)) THEN FlM(1, 1) ELSE fractVal
        clamped == IF FlGt(lo, Fl(1, 1)) THEN Fl(1, 1) ELSE lo
        shifted == FlAdd(clamped, Fl(1, 1))
        scaled  == FlMul(shifted, IntToFl(7))
        step    == FlFloor(scaled)
    IN  IF step < 0 THEN 0 ELSE IF step > 27 THEN 27 ELSE step

\* Mutant of JustMajorRatio: the third octave is doubled, not quadrupled
JustMajorRatio_Octave3Doubled(step) ==
    IF step < 7 THEN majorJust7_scale[step]
    ELSE IF step < 14 THEN FlMul(Fl(1, 1), majorJust7_scale[step - 7])
    ELSE IF step < 21 THEN FlMul(Fl(1, 1), majorJust7_scale[step - 14])
    ELSE FlMul(Fl(1, 3), majorJust7_scale[step - 21])

\* QuantizeJustMajor: the if-chain that turns the step into a ratio
JustMajorRatio(step) ==
    IF step < 7 THEN majorJust7_scale[step]
    ELSE IF step < 14 THEN FlMul(Fl(1, 1), majorJust7_scale[step - 7])
    ELSE IF step < 21 THEN FlMul(Fl(1, 2), majorJust7_scale[step - 14])
    ELSE FlMul(Fl(1, 3), majorJust7_scale[step - 21])

\* QuantizeJustMajor(fractVal) of pod/FractalZoom
QuantizeJustMajor(fractVal) ==
    FlMul(gBaseFreq, JustMajorRatio(JustMajorStep(fractVal)))

\* JustInTone: std::log2(justRatios[i]) as a float, the ratios being the
\* float quotients the table's initializer writes (log2 of 1.0f is 0)
justRatiosLog2 ==
    [i \in 0..11 |->
        CASE i = 0  -> FlZero
          [] i = 1  -> Fl(12496943, 0 - 27)
          [] i = 2  -> Fl(5701737, 0 - 25)
          [] i = 3  -> Fl(2206493, 0 - 23)
          [] i = 4  -> Fl(5401057, 0 - 24)
          [] i = 5  -> Fl(13926349, 0 - 25)
          [] i = 6  -> Fl(16503851, 0 - 25)
          [] i = 7  -> Fl(4907021, 0 - 23)
          [] i = 8  -> Fl(11376159, 0 - 24)
          [] i = 9  -> Fl(6182115, 0 - 23)
          [] i = 10 -> Fl(14227027, 0 - 24)
          [] i = 11 -> Fl(15215099, 0 - 24)]

\* Mutant of QuantizeCV: the semitone above is taken, not the nearest
QuantizeCV_RoundsUp(inputCV, useJustIntonation) ==
    LET octave0 == FlFloor(inputCV)
        frac    == FlSub(inputCV, IntToFl(octave0))
        semi0   == FlFloor(FlMul(frac, IntToFl(12))) + 1
        semi    == IF semi0 >= 12 THEN 0 ELSE semi0
        octave  == IF semi0 >= 12 THEN octave0 + 1 ELSE octave0
    IN  IF ~useJustIntonation
        THEN FlAdd(IntToFl(octave), FlDiv(IntToFl(semi), IntToFl(12)))
        ELSE FlAdd(IntToFl(octave), justRatiosLog2[semi])

\* Mutant of QuantizeCV: the semitone is truncated, not rounded
QuantizeCV_Truncates(inputCV, useJustIntonation) ==
    LET octave0 == FlFloor(inputCV)
        frac    == FlSub(inputCV, IntToFl(octave0))
        semi0   == FlFloor(FlMul(frac, IntToFl(12)))
        semi    == IF semi0 >= 12 THEN 0 ELSE semi0
        octave  == IF semi0 >= 12 THEN octave0 + 1 ELSE octave0
    IN  IF ~useJustIntonation
        THEN FlAdd(IntToFl(octave), FlDiv(IntToFl(semi), IntToFl(12)))
        ELSE FlAdd(IntToFl(octave), justRatiosLog2[semi])

\* QuantizeCV(inputCV, useJustIntonation) of JustInTone
QuantizeCV(inputCV, useJustIntonation) ==
    LET octave0 == FlFloor(inputCV)
        frac    == FlSub(inputCV, IntToFl(octave0))
        semi0   == FlRoundInt(FlMul(frac, IntToFl(12)))
        semi    == IF semi0 >= 12 THEN 0 ELSE semi0
        octave  == IF semi0 >= 12 THEN octave0 + 1 ELSE octave0
    IN  IF ~useJustIntonation
        THEN FlAdd(IntToFl(octave), FlDiv(IntToFl(semi), IntToFl(12)))
        ELSE FlAdd(IntToFl(octave), justRatiosLog2[semi])

----------------------------------------------------------------------------
(* The quantizers and conversions on their own: each is called on inputs   *)
(* from a bounded set, and a quantizer again on what it returned           *)

\* Randos: MidiToFreq(note) = 440.f * powf(2.f, (note - 69.f) / 12.f) for
\* note 0..127, as <<m, e>> of the binary32 result m * 2^e (powf rounded to
\* nearest)
MidiFreqTable == <<
    <<4286473, -19>>, <<9082721, -20>>, <<4811403, -19>>, <<10195009, -20>>,
    <<10801237, -20>>, <<5721755, -19>>, <<12123977, -20>>, <<3211227, -18>>,
    <<6804351, -19>>, <<55, -2>>, <<15275257, -20>>, <<8091783, -19>>,
    <<4286473, -18>>, <<9082721, -19>>, <<4811403, -18>>, <<10195009, -19>>,
    <<10801237, -19>>, <<5721755, -18>>, <<12123977, -19>>, <<3211227, -17>>,
    <<6804351, -18>>, <<55, -1>>, <<15275253, -19>>, <<8091785, -18>>,
    <<4286473, -17>>, <<283835, -13>>, <<1202851, -15>>, <<10195009, -18>>,
    <<10801235, -18>>, <<11443511, -18>>, <<12123977, -18>>, <<12844905, -18>>,
    <<13608705, -18>>, <<55, 0>>, <<15275253, -18>>, <<8091785, -17>>,
    <<4286473, -16>>, <<283835, -12>>, <<1202851, -14>>, <<10195009, -17>>,
    <<10801235, -17>>, <<11443511, -17>>, <<12123977, -17>>, <<12844905, -17>>,
    <<13608705, -17>>, <<55, 1>>, <<15275255, -17>>, <<1011473, -13>>,
    <<4286473, -15>>, <<9082721, -16>>, <<9622807, -16>>, <<10195009, -16>>,
    <<2700309, -14>>, <<11443511, -16>>, <<12123977, -16>>, <<12844907, -16>>,
    <<53159, -8>>, <<55, 2>>, <<15275253, -16>>, <<1011473, -12>>,
    <<4286473, -14>>, <<9082721, -15>>, <<9622807, -15>>, <<10195009, -15>>,
    <<2700309, -13>>, <<11443511, -15>>, <<12123977, -15>>, <<6422453, -14>>,
    <<53159, -7>>, <<55, 3>>, <<15275255, -15>>, <<1011473, -11>>,
    <<4286473, -13>>, <<9082721, -14>>, <<9622807, -14>>, <<10195009, -14>>,
    <<2700309, -12>>, <<11443511, -14>>, <<12123977, -14>>, <<6422453, -13>>,
    <<53159, -6>>, <<55, 4>>, <<15275255, -14>>, <<1011473, -10>>,
    <<4286473, -12>>, <<9082721, -13>>, <<9622807, -13>>, <<10195009, -13>>,
    <<2700309, -11>>, <<11443511, -13>>, <<12123977, -13>>, <<12844907, -13>>,
    <<53159, -5>>, <<55, 5>>, <<15275253, -13>>, <<8091785, -12>>,
    <<4286473, -11>>, <<283835, -7>>, <<1202851, -9>>, <<10195009, -12>>,
    <<10801235, -12>>, <<11443511, -12>>, <<12123977, -12>>, <<12844905, -12>>,
    <<13608705, -12>>, <<55, 6>>, <<15275253, -12>>, <<8091785, -11>>,
    <<4286473, -10>>, <<283835, -6>>, <<1202851, -8>>, <<10195009, -11>>,
    <<10801235, -11>>, <<11443511, -11>>, <<12123977, -11>>, <<12844905, -11>>,
    <<13608705, -11>>, <<55, 7>>, <<15275257, -11>>, <<8091783, -10>>,
    <<4286473, -9>>, <<9082721, -10>>, <<4811403, -9>>, <<10195009, -10>>,
    <<10801237, -10>>, <<5721755, -9>>, <<12123977, -10>>, <<3211227, -8>> >>

MidiToFreq(note) == Fl(MidiFreqTable[note + 1][1], MidiFreqTable[note + 1][2])

\* Randos: MAJOR_OFFSETS[8] and JUST_MAJOR[8], indexed from 1
MAJOR_OFFSETS == <<0, 2, 4, 5, 7, 9, 11, 12>>

JUST_MAJOR ==
    << FlOne, Fl(9, 0 - 3), Fl(5, 0 - 2), FlDiv(IntToFl(4), IntToFl(3)),
       Fl(3, 0 - 1), FlDiv(IntToFl(5), IntToFl(3)), Fl(15, 0 - 3), Fl(1, 1) >>

\* RandomQuantizedFreq: the loop that snaps leftover to the major scale,
\* from index i (counted from 1) with chosen so far
RECURSIVE MajorSnap(_, _, _)
MajorSnap(leftover, i, chosen) ==
    IF i > 8 THEN chosen
    ELSE IF MAJOR_OFFSETS[i] <= leftover
         THEN MajorSnap(leftover, i + 1, MAJOR_OFFSETS[i])
         ELSE chosen

\* RandomQuantizedFreq, 12-TET branch: the midinote picked for the draw r
\* (counted in units of 2^-24).  pickI = (int)(r * maxSemisF) with
\* maxSemisF = 12.f * g_octRange; fullOct = pickI / 12, leftover =
\* pickI % 12, chosen the major offset snapped to; the result is clamped to
\* 0..127.
MajorScaleNote(r, rootIndex, octRange) ==
    LET Clamp(midinote) ==
            IF midinote < 0 THEN 0 ELSE IF midinote > 127 THEN 127 ELSE midinote
        Pick(pickI) ==
            Clamp(48 + (((pickI \div 12) * 12) + MajorSnap(pickI % 12, 1, 0)
                        + (rootIndex - 1)))
    IN  Pick(FlFloor(FlMul(FlCanon(r, 0 - 24), FlMul(IntToFl(12), octRange))))

\* JustRandomFreq: the value returned for the draws r1 and r2.  i8 =
\* (int)(r1 * 8.f), clamped to 7; maxOctI = (int)floorf(g_octRange); o =
\* (int)(r2 * (maxOctI + 1)), clamped to maxOctI; ratio = JUST_MAJOR[idx] *
\* 2^octPicked.
JustRandomFreq_Value(r1, r2, baseFreq, octRange) ==
    LET Ratio(i8, o, maxOctI) ==
            FlMul(JUST_MAJOR[(IF i8 >= 8 THEN 7 ELSE i8) + 1],
                  IntToFl(2^(IF o > maxOctI THEN maxOctI ELSE o)))
        Octave(maxOctI) ==
            Ratio(FlFloor(FlMul(FlCanon(r1, 0 - 24), IntToFl(8))),
                  FlFloor(FlMul(FlCanon(r2, 0 - 24), IntToFl(maxOctI + 1))),
                  maxOctI)
    IN  FlMul(baseFreq, Octave(FlFloor(octRange)))

\* RandomQuantizedFreq: the value returned, from the draws it made
RandomQuantizedFreq_Value(draws, rootIndex, octRange, justOn) ==
    IF rootIndex = 0 THEN UnquantizedFreq(draws[1])
    ELSE IF justOn
         THEN JustRandomFreq_Value(draws[1], draws[2],
                                   MidiToFreq(48 + (rootIndex - 1)), octRange)
         ELSE MidiToFreq(MajorScaleNote(draws[1], rootIndex, octRange))

\* (uint16_t)x of a float x: the fraction is discarded (toward zero); the
\* conversion is defined for values in 0..65535 only
FlToUint16(a) ==
    IF a.m < 0 THEN 0 - FlFloor(FlNeg(a)) ELSE FlFloor(a)

\* Mutant of VoltsToDac: volts above 5 are not clamped
VoltsToDac_NoUpperClamp(volts) ==
    LET lo == IF FlLt(volts, FlZero) THEN FlZero ELSE volts
    IN  FlToUint16(FlMul(FlDiv(lo, IntToFl(5)), IntToFl(4095)))

\* Randos: VoltsToDac
VoltsToDac(volts) ==
    LET lo == IF FlLt(volts, FlZero) THEN FlZero ELSE volts
        hi == IF FlGt(lo, IntToFl(5)) THEN IntToFl(5) ELSE lo
    IN  FlToUint16(FlMul(FlDiv(hi, IntToFl(5)), IntToFl(4095)))

\* JustInTone AudioCallback: (uint16_t)std::round((cv / 8.0f) * 4095.0f)
CVToDac(cv) ==
    FlRoundInt(FlMul(FlDiv(cv, IntToFl(8)), IntToFl(4095)))

\* JustInTone AudioCallback: the two codes written to the DAC for a knob value
JustInTone_AudioCallback(knob_val) ==
    LET inputCV == FlMul(knob_val, IntToFl(8))
        eqCV    == QuantizeCV(inputCV, FALSE)
        justCV  == QuantizeCV(inputCV, TRUE)
    IN  [eqDac |-> CVToDac(eqCV), justDac |-> CVToDac(justCV)]

\* applications of a quantizer chained on one input
MaxApply == 2

\* floats given to the quantizers: -3 to 3 in steps of 1/8, the neighbours
\* of the clamps at -2 and 2, and values far outside
QuantInputs ==
    { FlCanon(k, 0 - 3) : k \in (0 - 24)..24 }
    \cup { Fl(8388609, 0 - 22), FlM(8388609, 0 - 22),
           Fl(16777215, 0 - 23), FlM(16777215, 0 - 23),
           Fl(1, FlMinExp), FlM(1, FlMinExp),
           Fl(1, 20), FlM(1, 20), Fl(16777215, 104), FlM(16777215, 104) }

\* control voltages given to QuantizeCV: -2 V to 8.5 V in steps of 1/48 V
\* (every semitone k/12, every midpoint between two semitones and the
\* quarter points), and the floats next to 0 on either side
CVInputs ==
    { FlDiv(IntToFl(k), IntToFl(48)) : k \in (0 - 96)..408 }
    \cup { Fl(1, FlMinExp), FlM(1, FlMinExp), FlM(1, 0 - 30) }

\* fractal values given to QuantizeJustMajor: QuantInputs and -2 to 2 in
\* steps of 1/28, four to each step of the scale
JustMajorInputs ==
    QuantInputs
    \cup { FlSub(FlDiv(IntToFl(j), IntToFl(28)), Fl(1, 1)) : j \in 0..112 }

\* volts given to VoltsToDac: -1 V to 6 V in steps of 1/16 V, the floats
\* next to 0 and 5, values far outside, and floats just below a multiple
\* of 5/4095 V
VoltInputs ==
    { FlCanon(k, 0 - 4) : k \in (0 - 16)..96 }
    \cup { Fl(1, FlMinExp), FlM(1, FlMinExp),
           Fl(10485759, 0 - 21), Fl(10485761, 0 - 21),
           Fl(1, 20), FlM(1, 20), Fl(16777215, 104), FlM(16777215, 104),
           Fl(8409093, 0 - 23), Fl(4214789, 0 - 22), Fl(8450063, 0 - 23) }

\* knob values given to the JustInTone callback: 0 to 1 in steps of 1/384
\* (1/48 V of the 8 V range), the smallest float above 0 and the largest
\* below 1
KnobInputs ==
    { FlDiv(IntToFl(k), IntToFl(384)) : k \in 0..384 }
    \cup { Fl(1, FlMinExp), Fl(16777215, 0 - 24) }

\* values of g_octRange given to RandomQuantizedFreq: the two ends of
\* [0.5, 6], 1 (the initial value) and 5.5
OctRanges == {FlHalf, FlOne, Fl(11, 0 - 1), IntToFl(6)}

QuantArgs ==
    [fn : {"QuantizeFractal"}, v : QuantInputs]
    \cup [fn : {"RandomQuantizedFreq"}, seed : Rand01Seeds, justOn : BOOLEAN]
    \cup [fn : {"QuantizeCV"}, v : CVInputs, just : BOOLEAN]
    \cup [fn : {"QuantizeJustMajor"}, v : JustMajorInputs]
    \cup [fn : {"VoltsToDac"}, v : VoltInputs]
    \cup [fn : {"RootedFreq"}, seed : Rand01Seeds, justOn : BOOLEAN,
           root : 1..12, octRange : OctRanges]
    \cup [fn : {"AudioCallback"}, v : KnobInputs]

Quant_Init ==
    /\ prog = "Quant"
    /\ arg \in QuantArgs
    /\ res = <<>>
    /\ elapsed = 0
    /\ g_note = <<>> /\ gate = FALSE /\ g_rootIndex = 0 /\ g_justOn = FALSE
    /\ g_zoomFactor = 0 /\ g_zoomPoint = 0 /\ knob0 = 0 /\ knob1 = 0
    /\ s_perm = <<>>
    /\ ev = Event("Init", 0, 0, 0, <<>>)

\* the part of a driver step that is the same for every function
QuantStep(kind) ==
    /\ elapsed' = elapsed + 1
    /\ ev' = Event(kind, 0, 0, 0, <<>>)
    /\ UNCHANGED <<prog, g_note, gate, g_rootIndex, g_justOn, g_zoomFactor,
                   g_zoomPoint, knob0, knob1, s_perm>>

\* a quantizer returned out for arg.v: res holds the argument, the result
\* and the argument of the first call of the chain; the next call is made
\* on the result
QuantApplied(out) ==
    /\ res' = [in |-> arg.v, out |-> out,
               first |-> IF res = <<>> THEN arg.v ELSE res.first]
    /\ arg' = [arg EXCEPT !.v = out]

Quant_QuantizeFractal ==
    /\ prog = "Quant" /\ arg.fn = "QuantizeFractal"
    /\ elapsed < MaxApply
    /\ QuantApplied(QuantizeFractal(arg.v))
    /\ QuantStep("QuantizeFractal")

Quant_QuantizeCV ==
    /\ prog = "Quant" /\ arg.fn = "QuantizeCV"
    /\ elapsed < MaxApply
    /\ QuantApplied(QuantizeCV(arg.v, arg.just))
    /\ QuantStep("QuantizeCV")

Quant_QuantizeJustMajor ==
    /\ prog = "Quant" /\ arg.fn = "QuantizeJustMajor"
    /\ elapsed < MaxApply
    /\ QuantApplied(QuantizeJustMajor(arg.v))
    /\ QuantStep("QuantizeJustMajor")

\* RandomQuantizedFreq with g_rootIndex == 0, on the seed the last call left
Quant_RandomQuantizedFreq ==
    /\ prog = "Quant" /\ arg.fn = "RandomQuantizedFreq"
    /\ elapsed < MaxChain
    /\ LET q == RandomQuantizedFreq(arg.seed, 0, arg.justOn)
       IN  /\ res' = [in |-> arg.seed, seed |-> q.seed, draws |-> q.draws,
                      out |-> UnquantizedFreq(q.draws[1])]
           /\ arg' = [arg EXCEPT !.seed = q.seed]
    /\ QuantStep("RandomQuantizedFreq")

\* RandomQuantizedFreq with a root (g_rootIndex in 1..12), on the seed the
\* last call left
Quant_RootedFreq ==
    /\ prog = "Quant" /\ arg.fn = "RootedFreq"
    /\ elapsed < MaxChain
    /\ \E q \in {RandomQuantizedFreq(arg.seed, arg.root, arg.justOn)} :
          /\ res' = [in |-> arg.seed, seed |-> q.seed, draws |-> q.draws,
                     out |-> RandomQuantizedFreq_Value(q.draws, arg.root,
                                                      arg.octRange, arg.justOn)]
          /\ arg' = [arg EXCEPT !.seed = q.seed]
    /\ QuantStep("RootedFreq")

\* Randos: one DAC write, WriteValue(channel, VoltsToDac(cvOut))
Quant_VoltsToDac ==
    /\ prog = "Quant" /\ arg.fn = "VoltsToDac"
    /\ elapsed < MaxApply
    /\ res' = [in |-> arg.v, code |-> VoltsToDac(arg.v)]
    /\ UNCHANGED arg
    /\ QuantStep("VoltsToDac")

\* JustInTone: one callback with the knob at arg.v, two DAC writes
Quant_AudioCallback ==
    /\ prog = "Quant" /\ arg.fn = "AudioCallback"
    /\ elapsed < MaxApply
    /\ LET w == JustInTone_AudioCallback(arg.v)
       IN  res' = [in |-> arg.v, eqDac |-> w.eqDac, justDac |-> w.justDac]
    /\ UNCHANGED arg
    /\ QuantStep("AudioCallback")

QuantNext ==
    \/ Quant_QuantizeFractal
    \/ Quant_RandomQuantizedFreq
    \/ Quant_QuantizeCV
    \/ Quant_QuantizeJustMajor
    \/ Quant_VoltsToDac
    \/ Quant_AudioCallback
    \/ Quant_RootedFreq

SpecQuant == Quant_Init /\ [][QuantNext]_vars

----------------------------------------------------------------------------
(* pod/FractalZoom: the evaluation timer of the audio callback *)

\* UpdateControls calls that change gEvalRate in one run
MaxRateChanges == 1

\* what p_evalRate.Process() returns at the knob positions the model
\* delivers: knob 2 is mapped linearly to 1..15 Hz
PodEvalRates == {IntToFl(12), IntToFl(15)}

\* main(): gSampleRate = pod.AudioSampleRate()
gSampleRate == Fl_48000

\* AudioCallback: float dt = 1.f / gSampleRate
Pod_dt == FlDiv(FlOne, gSampleRate)

\* pod/FractalZoom globals as statically initialized and as main() leaves
\* them: gEvalRate = 3.f, gEvalInterval = 1.f / gEvalRate, gEvalTimer = 0.f
Pod_Globals ==
    [gEvalRate     |-> IntToFl(3),
     gEvalInterval |-> FlDiv(FlOne, IntToFl(3)),
     gEvalTimer    |-> FlZero]

\* AudioCallback, one pass of the frame loop: gEvalTimer += dt, and the
\* fractal is evaluated (fBm1D called once for each voice) when the timer
\* has reached gEvalInterval
Pod_EvalStep(g) ==
    LET t == FlAdd(g.gEvalTimer, Pod_dt)
    IN  IF FlGe(t, g.gEvalInterval)
        THEN [g |-> [g EXCEPT !.gEvalTimer = FlZero], fbm |-> TRUE]
        ELSE [g |-> [g EXCEPT !.gEvalTimer = t], fbm |-> FALSE]

\* res of the pod: whether the last audio frame called fBm1D, and whether
\* the one before it did
Pod_Init ==
    /\ prog = "Pod"
    /\ arg = Pod_Globals
    /\ res = [fbm |-> FALSE, prev |-> FALSE]
    /\ elapsed = 0
    /\ g_note = <<>> /\ gate = FALSE /\ g_rootIndex = 0 /\ g_justOn = FALSE
    /\ g_zoomFactor = 0 /\ g_zoomPoint = 0 /\ knob0 = 0 /\ knob1 = 0
    /\ s_perm = <<>>
    /\ ev = Event("Init", 0, 0, 0, <<>>)

Pod_AudioFrame ==
    /\ prog = "Pod"
    /\ LET r == Pod_EvalStep(arg)
       IN  /\ arg' = r.g
           /\ res' = [fbm |-> r.fbm, prev |-> res.fbm]
    /\ ev' = Event("Frame", 0, 0, 0, <<>>)
    /\ UNCHANGED <<g_note, gate, g_rootIndex, g_justOn, g_zoomFactor,
                   g_zoomPoint, knob0, knob1, s_perm, prog, elapsed>>

\* UpdateControls with knob 2 moved: gEvalRate = p_evalRate.Process(),
\* gEvalInterval = 1.f / gEvalRate
Pod_UpdateControls ==
    /\ prog = "Pod"
    /\ elapsed < MaxRateChanges
    /\ \E rate \in PodEvalRates :
          /\ rate # arg.gEvalRate
          /\ arg' = [arg EXCEPT !.gEvalRate = rate,
                                !.gEvalInterval = FlDiv(FlOne, rate)]
    /\ elapsed' = elapsed + 1
    /\ ev' = Event("Knob", 0, 0, 0, <<>>)
    /\ UNCHANGED <<g_note, gate, g_rootIndex, g_justOn, g_zoomFactor,
                   g_zoomPoint, knob0, knob1, s_perm, prog, res>>

\* pod/FractalZoom: the loop timer.  arg is [gLoopT, gLoopLength]; the
\* sample rate is SampleRate frames a second.

\* frames of one run, and UpdateControls calls that change gLoopLength in it
MaxLoopFrames == 16

MaxLengthChanges == 1

\* what p_loopLength.Process() returns at the knob positions the model
\* delivers: knob 1 is mapped linearly to 0.5..3 s
PodLoopLengths == {FlHalf, Fl(7, 0 - 2), IntToFl(3)}

\* AudioCallback, one pass of the frame loop: gLoopT += dt;
\* if(gLoopT > gLoopLength) gLoopT -= gLoopLength
Pod_LoopStep(g) ==
    LET dt == FlDiv(FlOne, IntToFl(SampleRate))
        t  == FlAdd(g.gLoopT, dt)
    IN  IF FlGt(t, g.gLoopLength)
        THEN [g EXCEPT !.gLoopT = FlSub(t, g.gLoopLength)]
        ELSE [g EXCEPT !.gLoopT = t]

\* static float gLoopLength = 2.f; main(): gLoopT = 0.f.  res counts the
\* changes of gLoopLength, elapsed the frames.
Loop_Init ==
    /\ prog = "PodLoop"
    /\ arg = [gLoopT |-> FlZero, gLoopLength |-> IntToFl(2)]
    /\ res = 0
    /\ elapsed = 0
    /\ g_note = <<>> /\ gate = FALSE /\ g_rootIndex = 0 /\ g_justOn = FALSE
    /\ g_zoomFactor = 0 /\ g_zoomPoint = 0 /\ knob0 = 0 /\ knob1 = 0
    /\ s_perm = <<>>
    /\ ev = Event("Init", 0, 0, 0, <<>>)

Loop_AudioFrame ==
    /\ prog = "PodLoop"
    /\ elapsed < MaxLoopFrames
    /\ arg' = Pod_LoopStep(arg)
    /\ elapsed' = elapsed + 1
    /\ ev' = Event("Frame", 0, 0, 0, arg)
    /\ UNCHANGED <<g_note, gate, g_rootIndex, g_justOn, g_zoomFactor,
                   g_zoomPoint, knob0, knob1, s_perm, prog, res>>

\* UpdateControls with knob 1 moved: gLoopLength = p_loopLength.Process()
Loop_UpdateControls ==
    /\ prog = "PodLoop"
    /\ res < MaxLengthChanges
    /\ res' = res + 1
    /\ \E len \in PodLoopLengths :
          /\ len # arg.gLoopLength
          /\ arg' = [arg EXCEPT !.gLoopLength = len]
    /\ ev' = Event("Knob", 0, 0, 0, arg)
    /\ UNCHANGED <<g_note, gate, g_rootIndex, g_justOn, g_zoomFactor,
                   g_zoomPoint, knob0, knob1, s_perm, prog, elapsed>>

\* The two FractalZoom programs
FractalZoomNext ==
    \/ FZ_MidiNoteOn
    \/ FZ_MidiNoteOff
    \/ FZ_AudioFrame
    \/ FZ_TurnKnob
    \/ Pod_AudioFrame
    \/ Pod_UpdateControls
    \/ Loop_AudioFrame
    \/ Loop_UpdateControls

SpecFractalZoom ==
    (FZ_Init \/ Pod_Init \/ Loop_Init) /\ [][FractalZoomNext]_vars

----------------------------------------------------------------------------
(* Randos: the encoder UI *)

\* INT_MAX of the 32-bit int that enc.Increment() returns
IntMax == 2147483647

\* float(inc), rounded to binary32
IntToFlRounded(n) == FlRound(n < 0, IAbs(n), 0, FALSE)

\* what enc.Increment() returns in one call: no turn, one detent either
\* way, two detents, and the ends of the int range
EncoderIncs == {0 - IntMax, 0 - 1, 0, 1, 2, IntMax}

\* how a build resolves the signed overflow of g_rootIndex += inc: the sum
\* wraps modulo 2^32, or is carried in a wider register
Overflows == {"wraps", "wide"}

\* the UI globals as statically initialized
RandosUI_Init ==
    [g_uiMode |-> 0, g_prevPress |-> FALSE, g_rootIndex |-> 0,
     g_octRange |-> FlOne, g_justOn |-> FALSE]

\* case 0 of UpdateEncoderUI: g_rootIndex += inc, clamped to 0..12.  When
\* the sum overflows the int the behaviour is undefined: ovf picks the
\* outcome
UpdateEncoderUI_Root(root, inc, ovf) ==
    IF inc > IntMax - root
    THEN IF ovf = "wraps" THEN 0 ELSE 12
    ELSE LET sum == root + inc
         IN  IF sum < 0 THEN 0 ELSE IF sum > 12 THEN 12 ELSE sum

\* case 1 of UpdateEncoderUI: g_octRange += 0.5f * float(inc), clamped to
\* 0.5..6
UpdateEncoderUI_Range(octRange, inc) ==
    LET step == FlMul(FlHalf, IntToFlRounded(inc))
        sum  == FlAdd(octRange, step)
        lo   == IF FlLt(sum, FlHalf) THEN FlHalf ELSE sum
    IN  IF FlGt(lo, IntToFl(6)) THEN IntToFl(6) ELSE lo

\* Mutant of UpdateEncoderUI: the mode advances while the press is held
UpdateEncoderUI_NoEdge(ui, pressed, inc, ovf) ==
    LET mode == IF pressed THEN (ui.g_uiMode + 1) % 4 ELSE ui.g_uiMode
        u    == [ui EXCEPT !.g_uiMode = mode, !.g_prevPress = pressed]
    IN  IF inc = 0 THEN u
        ELSE CASE mode = 0 ->
                    [u EXCEPT !.g_rootIndex =
                                  UpdateEncoderUI_Root(u.g_rootIndex, inc, ovf)]
               [] mode = 1 ->
                    [u EXCEPT !.g_octRange =
                                  UpdateEncoderUI_Range(u.g_octRange, inc)]
               [] mode = 2 -> [u EXCEPT !.g_justOn = ~u.g_justOn]
               [] OTHER    -> u

\* Mutant of UpdateEncoderUI: in mode 2 only a positive increment toggles
UpdateEncoderUI_ToggleUpOnly(ui, pressed, inc, ovf) ==
    LET mode == IF ~ui.g_prevPress /\ pressed
                THEN (ui.g_uiMode + 1) % 4 ELSE ui.g_uiMode
        u    == [ui EXCEPT !.g_uiMode = mode, !.g_prevPress = pressed]
    IN  IF inc = 0 THEN u
        ELSE CASE mode = 0 ->
                    [u EXCEPT !.g_rootIndex =
                                  UpdateEncoderUI_Root(u.g_rootIndex, inc, ovf)]
               [] mode = 1 ->
                    [u EXCEPT !.g_octRange =
                                  UpdateEncoderUI_Range(u.g_octRange, inc)]
               [] mode = 2 ->
                    IF inc > 0 THEN [u EXCEPT !.g_justOn = ~u.g_justOn] ELSE u
               [] OTHER    -> u

\* UpdateEncoderUI: pressed is what enc.Pressed() returns, inc what
\* enc.Increment() returns.  g_note is not read.
UpdateEncoderUI(ui, pressed, inc, ovf) ==
    LET mode == IF ~ui.g_prevPress /\ pressed
                THEN (ui.g_uiMode + 1) % 4 ELSE ui.g_uiMode
        u    == [ui EXCEPT !.g_uiMode = mode, !.g_prevPress = pressed]
    IN  IF inc = 0 THEN u
        ELSE CASE mode = 0 ->
                    [u EXCEPT !.g_rootIndex =
                                  UpdateEncoderUI_Root(u.g_rootIndex, inc, ovf)]
               [] mode = 1 ->
                    [u EXCEPT !.g_octRange =
                                  UpdateEncoderUI_Range(u.g_octRange, inc)]
               [] mode = 2 -> [u EXCEPT !.g_justOn = ~u.g_justOn]
               [] OTHER    -> u

\* the UI globals of the running program: g_rootIndex and g_justOn are the
\* model's variables, the other three are held in arg
RandosUI_St ==
    [g_uiMode |-> arg.g_uiMode, g_prevPress |-> arg.g_prevPress,
     g_rootIndex |-> g_rootIndex, g_octRange |-> arg.g_octRange,
     g_justOn |-> g_justOn]

\* main() up to the main loop
UI_Init ==
    /\ prog = "RandosUI"
    /\ g_note = Randos_NoteInit
    /\ gate = FALSE
    /\ g_rootIndex = RandosUI_Init.g_rootIndex
    /\ g_justOn = RandosUI_Init.g_justOn
    /\ arg = [g_uiMode    |-> RandosUI_Init.g_uiMode,
              g_prevPress |-> RandosUI_Init.g_prevPress,
              g_octRange  |-> RandosUI_Init.g_octRange]
    /\ res = <<>>
    /\ elapsed = 0
    /\ g_zoomFactor = 0 /\ g_zoomPoint = 0 /\ knob0 = 0 /\ knob1 = 0
    /\ s_perm = <<>>
    /\ ev = Event("Init", 0, 0, 0, <<>>)

\* the key played while the UI is exercised
UINotes == {60}

\* main loop: HandleMidi pops a NoteOn
UI_MidiNoteOn ==
    /\ prog = "RandosUI"
    /\ \E n \in UINotes, vel \in Velocities :
          LET st == Randos_NoteOn(Randos_St, n, vel)
          IN  /\ g_note' = st.note
              /\ gate' = st.gate
              /\ ev' = Event("NoteOn", n, vel, 0, <<>>)
    /\ res' = <<>>
    /\ UNCHANGED <<prog, g_rootIndex, g_justOn, g_zoomFactor, g_zoomPoint,
                   knob0, knob1, s_perm, elapsed, arg>>

\* main loop: HandleMidi pops a NoteOff
UI_MidiNoteOff ==
    /\ prog = "RandosUI"
    /\ \E n \in UINotes :
          LET st == Randos_NoteOff(Randos_St, n)
          IN  /\ g_note' = st.note
              /\ gate' = st.gate
              /\ ev' = Event("NoteOff", n, 0, 0, <<>>)
    /\ res' = <<>>
    /\ UNCHANGED <<prog, g_rootIndex, g_justOn, g_zoomFactor, g_zoomPoint,
                   knob0, knob1, s_perm, elapsed, arg>>

\* main loop: one call of UpdateEncoderUI.  res keeps the call's inputs and
\* the state it was made in, until the next MIDI event.
UI_UpdateEncoderUI ==
    /\ prog = "RandosUI"
    /\ \E pressed \in BOOLEAN, inc \in EncoderIncs :
       \E ovf \in IF inc > IntMax - g_rootIndex THEN Overflows ELSE {"wraps"} :
       \E u \in {UpdateEncoderUI(RandosUI_St, pressed, inc, ovf)} :
          /\ g_rootIndex' = u.g_rootIndex
          /\ g_justOn' = u.g_justOn
          /\ arg' = [g_uiMode    |-> u.g_uiMode,
                     g_prevPress |-> u.g_prevPress,
                     g_octRange  |-> u.g_octRange]
          /\ res' = [pressed |-> pressed, inc |-> inc,
                     ui |-> RandosUI_St, note |-> g_note, gate |-> gate]
    /\ ev' = Event("Encoder", 0, 0, 0, <<>>)
    /\ UNCHANGED <<prog, g_note, gate, g_zoomFactor, g_zoomPoint,
                   knob0, knob1, s_perm, elapsed>>

UINext ==
    \/ UI_MidiNoteOn
    \/ UI_MidiNoteOff
    \/ UI_UpdateEncoderUI

SpecUI == UI_Init /\ [][UINext]_vars

----------------------------------------------------------------------------
(* Randos: the whole frame of AudioCallback, with the three slew limiters, *)
(* the four audio outputs and the two DAC channels.  arg holds g_octRange, *)
(* the three controls the frame reads and the slew objects; res holds what *)
(* the last frame wrote.                                                   *)

MaxVoiceFrames == 5

\* g_rootIndex, g_justOn, g_octRange as the encoder UI left them
VoiceConfigs ==
    {[root |-> 0,  justOn |-> FALSE, octRange |-> FlOne],
     [root |-> 1,  justOn |-> TRUE,  octRange |-> FlOne],
     [root |-> 12, justOn |-> FALSE, octRange |-> IntToFl(6)]}

\* patch.controls[1..3].Process(): amplitude + CV1, CV2, slew time
VoiceControls ==
    {[ctrl1 |-> FlOne,  ctrl2 |-> FlHalf, ctrl3 |-> FlZero],
     [ctrl1 |-> FlHalf, ctrl2 |-> FlOne,  ctrl3 |-> FlOne]}

\* osc[0..3].Process(): the samples the four oscillators hand back in a frame
OscSamples ==
    {<<FlOne, FlHalf, FlZero, FlNeg(FlHalf)>>,
     <<FlHalf, FlNeg(FlOne), FlOne, FlHalf>>}

\* main(): pitchSlew.Init(sr); SetValue(220.f); cvSlew1/2.Init(sr);
\* SetValue(0.f)
Voice_Slews ==
    [pitchSlew |-> SetValue(SlewLimiter_Init("Randos", IntToFl(SampleRate)),
                            IntToFl(220)),
     cvSlew1   |-> SetValue(SlewLimiter_Init("Randos", IntToFl(SampleRate)),
                            FlZero),
     cvSlew2   |-> SetValue(SlewLimiter_Init("Randos", IntToFl(SampleRate)),
                            FlZero)]

\* AudioCallback before the frame loop: slewT = ctrl3 * maxSlew, set as rise
\* and fall time of the three slews
Voice_SetTimes(sl, ctrl3) ==
    [s \in {"pitchSlew", "cvSlew1", "cvSlew2"} |->
        SetFallTime(SetRiseTime(sl[s], FlMul(ctrl3, FlOne)),
                    FlMul(ctrl3, FlOne))]

\* AudioCallback on a wrap, after the pitch target: the CV2 target is drawn
\* from the seed the pitch draw left, then the CV1 target; the three
\* destinations are set.  r2 is the draw for CV2.
Voice_SetDests(sl, newFreq, r2, r1) ==
    [pitchSlew |-> SetDest(sl.pitchSlew, newFreq),
     cvSlew2   |-> SetDest(sl.cvSlew2, FlMul(FlCanon(r2.ret, 0 - 24), IntToFl(5))),
     cvSlew1   |-> SetDest(sl.cvSlew1, FlMul(FlCanon(r1.ret, 0 - 24), IntToFl(5)))]

\* Mutant of Voice_Retarget: on a wrap CV1 is drawn before CV2
Voice_Retarget_CV1First(sl, f, first, cfg) ==
    Voice_SetDests(sl,
                   RandomQuantizedFreq_Value(f.draws, cfg.root, cfg.octRange,
                                             cfg.justOn),
                   Rand01(first.seed), first)

\* AudioCallback on a wrap: f is what RandomQuantizedFreq(g_note.seed) drew
\* and left, first the draw of the Rand01 call that follows it
Voice_Retarget(sl, f, first, cfg) ==
    Voice_SetDests(sl,
                   RandomQuantizedFreq_Value(f.draws, cfg.root, cfg.octRange,
                                             cfg.justOn),
                   first, Rand01(first.seed))

\* AudioCallback: pitchSlew.Process(), cvSlew1.Process(), cvSlew2.Process()
Voice_Process(tg) ==
    [pitchSlew |-> Randos_Process(tg.pitchSlew),
     cvSlew1   |-> Randos_Process(tg.cvSlew1),
     cvSlew2   |-> Randos_Process(tg.cvSlew2)]

\* AudioCallback: the four samples, scaled by ctrl1, and the two DAC codes,
\* from the slews as processed in this frame
Voice_Outputs(n1, pr, ctl, osc) ==
    [note |-> n1,
     sl   |-> pr,
     out  |-> [c \in 1..4 |-> FlMul(osc[c], ctl.ctrl1)],
     dac1 |-> VoltsToDac(FlMul(pr.cvSlew1.value, ctl.ctrl1)),
     dac2 |-> VoltsToDac(FlMul(pr.cvSlew2.value, ctl.ctrl2))]

\* AudioCallback, the frame loop past the idle test: the phase step, the
\* three targets on a wrap (pitch, then CV2, then CV1), the three slews,
\* the oscillators and the two DAC codes.
Voice_Sounding(note, sl, inc, f, cfg, ctl, osc) ==
    Voice_Outputs(Randos_Frame(note, inc, cfg.root, cfg.justOn),
                  Voice_Process(IF F32Add(note.phase, inc) >= F32One
                                THEN Voice_Retarget(sl, f, Rand01(f.seed), cfg)
                                ELSE sl),
                  ctl, osc)

\* Mutant of Voice_Frame: an idle frame still runs the three slews
Voice_Frame_IdleRunsSlews(note, sl, inc, cfg, ctl, osc) ==
    IF ~note.on
    THEN [note |-> note,
          sl   |-> Voice_Process(sl),
          out  |-> <<FlZero, FlZero, FlZero, FlZero>>,
          dac1 |-> 0, dac2 |-> 0]
    ELSE Voice_Sounding(note, sl, inc,
                        RandomQuantizedFreq(note.seed, cfg.root, cfg.justOn),
                        cfg, ctl, osc)

\* AudioCallback, one pass of the frame loop with everything it writes:
\* g_note, the slews, out[0..3][i] and the two DAC codes.  sl is the slews
\* with the times the callback set before the loop.
Voice_Frame(note, sl, inc, cfg, ctl, osc) ==
    IF ~note.on
    THEN [note |-> note, sl |-> sl,
          out  |-> <<FlZero, FlZero, FlZero, FlZero>>,
          dac1 |-> 0, dac2 |-> 0]
    ELSE Voice_Sounding(note, sl, inc,
                        RandomQuantizedFreq(note.seed, cfg.root, cfg.justOn),
                        cfg, ctl, osc)

Voice_St == [note |-> g_note, gate |-> gate, sl |-> arg.sl]

Voice_Init ==
    /\ prog = "RandosVoice"
    /\ g_note = Randos_NoteInit
    /\ gate = FALSE
    /\ \E cfg \in VoiceConfigs, ctl \in VoiceControls :
          /\ g_rootIndex = cfg.root
          /\ g_justOn = cfg.justOn
          /\ arg = [cfg |-> cfg, ctl |-> ctl, sl |-> Voice_Slews]
    /\ g_zoomFactor = 0 /\ g_zoomPoint = 0 /\ knob0 = 0 /\ knob1 = 0
    /\ s_perm = <<>>
    /\ elapsed = 0
    /\ ev = Event("Init", 0, 0, 0,
                  [note |-> Randos_NoteInit, gate |-> FALSE, sl |-> Voice_Slews])
    /\ res = <<>>

Voice_MidiNoteOn ==
    /\ prog = "RandosVoice"
    /\ \E n \in UINotes, vel \in Velocities :
          LET st == Randos_NoteOn(Randos_St, n, vel)
          IN  /\ g_note' = st.note
              /\ gate' = st.gate
              /\ ev' = Event("NoteOn", n, vel, 0, Voice_St)
    /\ res' = <<>>
    /\ UNCHANGED <<prog, g_rootIndex, g_justOn, g_zoomFactor, g_zoomPoint,
                   knob0, knob1, s_perm, elapsed, arg>>

Voice_MidiNoteOff ==
    /\ prog = "RandosVoice"
    /\ \E n \in UINotes :
          LET st == Randos_NoteOff(Randos_St, n)
          IN  /\ g_note' = st.note
              /\ gate' = st.gate
              /\ ev' = Event("NoteOff", n, 0, 0, Voice_St)
    /\ res' = <<>>
    /\ UNCHANGED <<prog, g_rootIndex, g_justOn, g_zoomFactor, g_zoomPoint,
                   knob0, knob1, s_perm, elapsed, arg>>

Voice_AudioFrame ==
    /\ prog = "RandosVoice"
    /\ g_note.on => elapsed < MaxVoiceFrames
    /\ \E sf \in StepFreqs, osc \in OscSamples :
          \E f \in {Voice_Frame(g_note, Voice_SetTimes(arg.sl, arg.ctl.ctrl3),
                                Randos_Inc(sf), arg.cfg, arg.ctl, osc)} :
             /\ g_note' = f.note
             /\ arg' = [arg EXCEPT !.sl = f.sl]
             /\ res' = [out |-> f.out, dac1 |-> f.dac1, dac2 |-> f.dac2]
             /\ ev' = Event("Frame", 0, 0, Randos_Inc(sf), Voice_St)
    /\ elapsed' = IF g_note.on THEN elapsed + 1 ELSE elapsed
    /\ UNCHANGED <<prog, gate, g_rootIndex, g_justOn, g_zoomFactor,
                   g_zoomPoint, knob0, knob1, s_perm>>

\* patch/FractalZoom AudioCallback: the sample a frame writes to the four
\* outputs.  st is the state the frame starts from, osc what the four
\* oscillators hand back, ampK controls[3].
FZ_Sig(st, osc, ampK) ==
    IF st.note.on /\ F32Add(st.note.phase, FZ_Inc) < st.note.duration
    THEN LET mix == FlMul(FlAdd(FlAdd(FlAdd(osc[1], osc[2]), osc[3]), osc[4]),
                          Fl(1, 0 - 2))
         IN  FlMul(mix, ampK)
    ELSE FlZero

\* patch/FractalZoom: a frame with what it writes; res.out is out[0..3][i]
FZ_VoiceFrame ==
    /\ prog = "FractalZoom"
    /\ FZ_Set(FZ_Frame(FZ_St))
    /\ elapsed' = IF g_note.on THEN elapsed + 1 ELSE elapsed
    /\ ev' = Event("Frame", 0, 0, FZ_Inc, FZ_St)
    /\ \E osc \in OscSamples, ampK \in {FlHalf, FlOne} :
          res' = [out |-> [c \in 1..4 |-> FZ_Sig(FZ_St, osc, ampK)]]
    /\ UNCHANGED <<prog, g_rootIndex, g_justOn, knob0, knob1, s_perm, arg>>

VoiceNext ==
    \/ Voice_MidiNoteOn
    \/ Voice_MidiNoteOff
    \/ Voice_AudioFrame
    \/ FZ_MidiNoteOn
    \/ FZ_MidiNoteOff
    \/ FZ_VoiceFrame

SpecVoice == (Voice_Init \/ FZ_Init) /\ [][VoiceNext]_vars

----------------------------------------------------------------------------
(* HandleMidi statement by statement, with the audio callback free to run   *)
(* between any two statements (the callback itself runs whole).  arg holds  *)
(* the handler's position: todo, the statements of the current event still  *)
(* to run, its note number n, and fresh, set by "g_note.on = true" and      *)
(* cleared by the first callback that runs after it.                        *)

MaxCallbacks == 3

\* frames per callback (size)
BlockSize == 2

PreProgs == {"RandosPre", "FZPre"}

PreNotes == {0, 60}

\* The statements HandleMidi runs for an event, in the order written
HandleMidi_Statements(pr, kind, vel) ==
    IF pr = "RandosPre"
    THEN CASE kind = "NoteOn" /\ vel > 0 ->
                <<"on = true", "midinote = n", "seed = n * 12345u + 99999u",
                  "phase = 0.f", "SetGate(true)">>
           [] kind = "NoteOn" /\ vel = 0 ->
                <<"if(midinote == n)", "on = false", "SetGate(false)">>
           [] kind = "NoteOff" ->
                <<"if(on && midinote == n)", "on = false", "SetGate(false)">>
    ELSE CASE kind = "NoteOn" /\ vel > 0 ->
                <<"on = true", "phase = 0.f", "g_zoomFactor = powf(3.f, k0)",
                  "g_zoomPoint = k1 * 5.f", "SetGate(true)">>
           [] OTHER ->
                <<"on = false", "SetGate(false)">>

\* One statement of HandleMidi run on the state st; a failed if is FALSE in
\* taken
HandleMidi_Statement(st, stmt, n, k0, k1) ==
    CASE stmt = "on = true" ->
            [st |-> [st EXCEPT !.note.on = TRUE], taken |-> TRUE]
      [] stmt = "midinote = n" ->
            [st |-> [st EXCEPT !.note.midinote = n], taken |-> TRUE]
      [] stmt = "seed = n * 12345u + 99999u" ->
            [st |-> [st EXCEPT !.note.seed = U32(n * SEED_MUL + SEED_ADD)],
             taken |-> TRUE]
      [] stmt = "phase = 0.f" ->
            [st |-> [st EXCEPT !.note.phase = 0], taken |-> TRUE]
      [] stmt = "g_zoomFactor = powf(3.f, k0)" ->
            [st |-> [st EXCEPT !.zoomFactor = powf3(k0)], taken |-> TRUE]
      [] stmt = "g_zoomPoint = k1 * 5.f" ->
            [st |-> [st EXCEPT !.zoomPoint = FZ_ZoomPoint(k1)], taken |-> TRUE]
      [] stmt = "SetGate(true)" ->
            [st |-> [st EXCEPT !.gate = TRUE], taken |-> TRUE]
      [] stmt = "if(midinote == n)" ->
            [st |-> st, taken |-> st.note.midinote = n]
      [] stmt = "if(on && midinote == n)" ->
            [st |-> st, taken |-> st.note.on /\ st.note.midinote = n]
      [] stmt = "on = false" ->
            [st |-> [st EXCEPT !.note.on = FALSE], taken |-> TRUE]
      [] stmt = "SetGate(false)" ->
            [st |-> [st EXCEPT !.gate = FALSE], taken |-> TRUE]

\* AudioCallback: k passes of the frame loop, one after the other
RECURSIVE Pre_Frames(_, _, _, _)
Pre_Frames(pr, st, inc, k) ==
    IF k = 0 THEN st
    ELSE Pre_Frames(pr,
                    IF pr = "RandosPre"
                    THEN [st EXCEPT !.note = Randos_Frame(st.note, inc, 0, FALSE)]
                    ELSE FZ_Frame(st),
                    inc, k - 1)

Pre_Idle == [todo |-> <<>>, n |-> 0, fresh |-> FALSE]

PreRandos_Init ==
    /\ prog = "RandosPre"
    /\ g_note = Randos_NoteInit
    /\ gate = FALSE
    /\ g_rootIndex = 0
    /\ g_justOn = FALSE
    /\ g_zoomFactor = 0 /\ g_zoomPoint = 0 /\ knob0 = 0 /\ knob1 = 0
    /\ s_perm = <<>>
    /\ elapsed = 0
    /\ arg = Pre_Idle
    /\ ev = Event("Init", 0, 0, 0, <<>>)
    /\ res = <<>>

PreFZ_Init ==
    /\ prog = "FZPre"
    /\ g_note = FZ_NoteInit
    /\ gate = FALSE
    /\ g_rootIndex = 0
    /\ g_justOn = FALSE
    /\ g_zoomFactor = F32One
    /\ g_zoomPoint = 0
    /\ knob0 = F32One \div 2
    /\ knob1 = F32One
    /\ s_perm = <<>>
    /\ elapsed = 0
    /\ arg = Pre_Idle
    /\ ev = Event("Init", 0, 0, 0, <<>>)
    /\ res = <<>>

Pre_St == [st |-> FZ_St, midi |-> arg]

\* HandleMidi: m.PopEvent() and the switch on its type
Pre_PopEvent ==
    /\ prog \in PreProgs
    /\ arg.todo = <<>>
    /\ \E kind \in {"NoteOn", "NoteOff"}, n \in PreNotes, vel \in Velocities :
          /\ kind = "NoteOff" => vel = 0
          /\ arg' = [arg EXCEPT !.todo = HandleMidi_Statements(prog, kind, vel),
                                !.n = n]
          /\ ev' = Event(kind, n, vel, 0, <<>>)
    /\ UNCHANGED <<prog, g_note, gate, g_rootIndex, g_justOn, g_zoomFactor,
                   g_zoomPoint, knob0, knob1, s_perm, elapsed, res>>

\* HandleMidi: the next statement of the event being handled
Pre_Statement ==
    /\ prog \in PreProgs
    /\ arg.todo # <<>>
    /\ \E r \in {HandleMidi_Statement(FZ_St, Head(arg.todo), arg.n,
                                      knob0, knob1)} :
          /\ FZ_Set(r.st)
          /\ arg' = [arg EXCEPT
                        !.todo  = IF r.taken THEN Tail(arg.todo) ELSE <<>>,
                        !.fresh = arg.fresh \/ Head(arg.todo) = "on = true"]
    /\ ev' = Event("Statement", arg.n, 0, 0, <<>>)
    /\ UNCHANGED <<prog, g_rootIndex, g_justOn, knob0, knob1, s_perm,
                   elapsed, res>>

\* The audio interrupt: AudioCallback on a block of BlockSize frames.
\* ev.pre is what its first frame found.
Pre_AudioCallback ==
    /\ prog \in PreProgs
    /\ (prog = "RandosPre" /\ g_note.on) => elapsed < MaxCallbacks
    /\ \E sf \in StepFreqs :
          LET inc == IF prog = "RandosPre" THEN Randos_Inc(sf) ELSE FZ_Inc
          IN  /\ prog = "FZPre" => sf = F32One
              /\ FZ_Set(Pre_Frames(prog, FZ_St, inc, BlockSize))
              /\ ev' = Event("Callback", 0, 0, inc, Pre_St)
    /\ elapsed' = IF prog = "RandosPre" /\ g_note.on
                  THEN elapsed + 1 ELSE elapsed
    /\ arg' = [arg EXCEPT !.fresh = FALSE]
    /\ UNCHANGED <<prog, g_rootIndex, g_justOn, knob0, knob1, s_perm, res>>

PreNext == Pre_PopEvent \/ Pre_Statement \/ Pre_AudioCallback

SpecPreempt == (PreRandos_Init \/ PreFZ_Init) /\ [][PreNext]_vars

----------------------------------------------------------------------------
(* Properties *)

Patch ==prog \in {"Randos", "FractalZoom"}

\* C1: in Randos and patch/FractalZoom, after any sequence of NoteOn,
\* NoteOff and audio-frame steps from the initial state, the gate is high if
\* and only if g_note.on is true.
C1_GateIffOn == Patch => (gate <=> g_note.on)

\* C1: reached - a FractalZoom frame timed the note out and dropped the gate.
C1_Witness ==
    /\ prog = "FractalZoom"
    /\ ev.kind = "Frame"
    /\ ev.pre.note.on /\ ev.pre.gate
    /\ ~g_note.on /\ ~gate

\* C2 (as claimed): after initialization entries 0..255 of s_perm hold every
\* value 0..255 exactly once.
C2_FirstHalfIsPermutation ==
    prog = "FractalZoom" => {s_perm[i] : i \in 0..255} = 0..255

\* C3: in Randos, NoteOn(n, v) with v > 0, handled in any note state, leaves
\* on = true, midinote = n, seed = n*12345 + 99999, phase = 0 and the gate
\* high: a state that is a function of n alone.
C3_NoteOnState ==
    (prog = "Randos" /\ ev.kind = "NoteOn" /\ ev.vel > 0)
        => /\ g_note = [on       |-> TRUE,
                        midinote |-> ev.note,
                        seed     |-> U32(ev.note * 12345 + 99999),
                        phase    |-> 0]
           /\ gate

\* C3: reached - the NoteOn retriggered a voice that was sounding another
\* note, whose seed had advanced and whose phase was not 0.
C3_Witness ==
    /\ prog = "Randos"
    /\ ev.kind = "NoteOn" /\ ev.vel > 0
    /\ ev.pre.note.on
    /\ ev.pre.note.midinote # ev.note
    /\ ev.pre.note.seed # U32(ev.pre.note.midinote * 12345 + 99999)
    /\ ev.pre.note.phase # 0
    /\ g_note.on /\ g_note.midinote = ev.note

\* C4 (as claimed): a NoteOn for note 60 with velocity > 0 seeds the
\* generator with 841139.
C4_Seed60Is841139 ==
    (prog = "Randos" /\ ev.kind = "NoteOn" /\ ev.vel > 0 /\ ev.note = 60)
        => g_note.seed = U32(841139)

\* C4 (amended): a NoteOn for note 60 with velocity > 0 seeds the generator
\* with 840699 = 99999 + 60*12345.
C4_Seed60Is840699 ==
    (prog = "Randos" /\ ev.kind = "NoteOn" /\ ev.vel > 0 /\ ev.note = 60)
        => g_note.seed = U32(840699)

\* C4: reached - note 60 was just switched on.
C4_Witness ==
    /\ prog = "Randos"
    /\ ev.kind = "NoteOn" /\ ev.vel > 0 /\ ev.note = 60
    /\ g_note.on /\ g_note.midinote = 60

\* (a * k) mod 2^32 by shift and add, one bit of k at a time
RECURSIVE ShiftAddMul(_, _)
ShiftAddMul(x, k) ==
    IF k = 0 THEN <<0, 0>>
    ELSE LET half    == ShiftAddMul(x, k \div 2)
             doubled == U32Add(half, half)
         IN  IF k % 2 = 1 THEN U32Add(x, doubled) ELSE doubled

\* C5: one call of Rand01 replaces the seed s by
\* (s*1664525 + 1013904223) mod 2^32 and returns (newSeed div 256) / 2^24,
\* whose numerator lies in 0..2^24-1: the result is in [0, 1), never 1.
C5_Rand01 ==
    (prog = "Rand01" /\ res # <<>>)
        => /\ res.seed = U32Add(ShiftAddMul(res.in, 1664525), U32(1013904223))
           /\ res.ret = (res.seed[1] * 256) + (res.seed[2] \div 256)
           /\ res.ret \in 0..(16777216 - 1)

\* C5: reached - a call returned the largest value, (2^24 - 1) / 2^24.
C5_Witness ==
    /\ prog = "Rand01"
    /\ res # <<>>
    /\ res.ret = 16777215

\* C6: in every note state, NoteOn(n, velocity 0) leaves on, midinote, seed,
\* phase and gate as NoteOff(n) would; on an idle voice it changes nothing.
C6_Velocity0IsNoteOff ==
    (Patch /\ ev.kind = "NoteOn" /\ ev.vel = 0)
        => /\ prog = "Randos" => Randos_St = Randos_NoteOff(ev.pre, ev.note)
           /\ prog = "FractalZoom" => FZ_St = FZ_NoteOff(ev.pre)
           /\ ~ev.pre.note.on => (g_note = ev.pre.note /\ gate = ev.pre.gate)

\* C6: reached - a velocity-0 NoteOn arrived for the note an idle Randos
\* voice had last played (the case NoteOff skips and NoteOn does not) and
\* changed nothing.
C6_Witness ==
    /\ prog = "Randos"
    /\ ev.kind = "NoteOn" /\ ev.vel = 0
    /\ ~ev.pre.note.on /\ ev.pre.note.midinote = ev.note
    /\ elapsed > 0
    /\ ~g_note.on /\ ~gate

\* C7 (as claimed): a FractalZoom note is on after its k-th frame exactly
\* when k < ceil(duration * sampleRate) (duration is 5 s).
C7_EndsAtCeilFrame ==
    (prog = "FractalZoom" /\ ev.kind = "Frame" /\ ev.pre.note.on)
        => (g_note.on <=> elapsed < 5 * SampleRate)

\* C7 (amended): every frame processed with the voice on advances the phase;
\* the voice stays on with the gate high while the phase is below the
\* duration, and on the first frame where the accumulated binary32 phase
\* reaches the duration it goes idle and the gate goes low.
C7_EndsWhenPhaseReachesDuration ==
    (prog = "FractalZoom" /\ ev.kind = "Frame" /\ ev.pre.note.on)
        => /\ g_note.phase > ev.pre.note.phase
           /\ g_note.duration = 5 * F32One
           /\ g_note.phase < g_note.duration => (g_note.on /\ gate)
           /\ g_note.phase >= g_note.duration => (~g_note.on /\ ~gate)

\* C7: reached - the note ended on a frame that is not frame
\* ceil(duration * sampleRate).
C7_Witness ==
    /\ prog = "FractalZoom"
    /\ ev.kind = "Frame" /\ ev.pre.note.on
    /\ ~g_note.on /\ ~gate
    /\ elapsed # 5 * SampleRate

\* C8 (as claimed): in Randos and patch/FractalZoom, a frame processed with
\* the voice on, which leaves it on, never decreases g_note.phase.
C8_PhaseNeverDecreases ==
    (Patch /\ ev.kind = "Frame" /\ ev.pre.note.on /\ g_note.on)
        => g_note.phase >= ev.pre.note.phase

\* C8 (amended): in patch/FractalZoom a frame processed with the voice on
\* never decreases the phase; in Randos it never does except on a wrap
\* frame, where phase + inc reached 1 and the new phase is that sum less 1.
C8_PhaseDecreasesOnlyOnWrap ==
    (Patch /\ ev.kind = "Frame" /\ ev.pre.note.on)
        => /\ prog = "FractalZoom" => g_note.phase >= ev.pre.note.phase
           /\ prog = "Randos" =>
                \/ g_note.phase >= ev.pre.note.phase
                \/ /\ RoundF32(ev.pre.note.phase + ev.inc) >= F32One
                   /\ g_note.phase = RoundF32(ev.pre.note.phase + ev.inc) - F32One

\* C8: reached - a Randos frame wrapped the phase below its previous value.
C8_Witness ==
    /\ prog = "Randos"
    /\ ev.kind = "Frame" /\ ev.pre.note.on /\ g_note.on
    /\ g_note.phase < ev.pre.note.phase

\* C9: in Randos g_note.on goes from true to false only while handling a
\* NoteOff, or a velocity-0 NoteOn, for the note number g_note.midinote; an
\* audio frame never ends the voice.
C9_OnlyMatchingOffEnds ==
    (prog = "Randos" /\ ev.pre.note.on /\ ~g_note.on)
        => /\ ev.kind \in {"NoteOff", "NoteOn"}
           /\ ev.kind = "NoteOn" => ev.vel = 0
           /\ ev.note = ev.pre.note.midinote

\* C9: reached - the voice is still on after the last frame the model runs.
C9_Witness ==
    /\ prog = "Randos"
    /\ ev.kind = "Frame" /\ ev.pre.note.on
    /\ elapsed = MaxFrames
    /\ g_note.on /\ gate

\* C10: in patch/FractalZoom only a NoteOn with velocity > 0 writes
\* g_zoomFactor and g_zoomPoint: no frame, no turn of knob 0 or 1 and no
\* note-off changes them.
C10_ZoomHeld ==
    (prog = "FractalZoom" /\ ~(ev.kind = "NoteOn" /\ ev.vel > 0))
        => /\ g_zoomFactor = ev.pre.zoomFactor
           /\ g_zoomPoint = ev.pre.zoomPoint

\* C10: reached - a frame of a sounding note ran after both knobs had moved
\* away from the captured pair.
C10_Witness ==
    /\ prog = "FractalZoom"
    /\ ev.kind = "Frame" /\ g_note.on /\ elapsed > 1
    /\ g_zoomFactor # powf3(knob0)
    /\ g_zoomPoint # FZ_ZoomPoint(knob1)

\* x lies in the closed interval between a and b
FlBetween(a, x, b) ==
    \/ FlLe(a, x) /\ FlLe(x, b)
    \/ FlLe(b, x) /\ FlLe(x, a)

SlewRampLengths == {2, 4, 6, 4800}

\* C12 (as claimed): on a ramp from value 0 to dest 1 with rise*sampleRate
\* = N, the value equals dest after N calls of Process() and is within 1/N
\* of 0.5 after N/2 calls.
C12_LinearRamp ==
    \A n \in SlewRampLengths :
        (/\ prog = "Slew"
         /\ arg.impl \in {"Randos", "Pod"}
         /\ res.from = FlZero /\ arg.dest = FlOne
         /\ FlMul(arg.rise, arg.sr) = IntToFl(n))
            => /\ elapsed = n => arg.value = arg.dest
               /\ elapsed = n \div 2 =>
                      FlLe(FlAbs(FlSub(arg.value, FlHalf)),
                           FlDiv(FlOne, IntToFl(n)))

\* C13: with the time of the direction of travel equal to 0 (rise for a
\* value below dest_, fall for one above), one call of Process() on a
\* limiter whose value_ differs from dest_ leaves value_ = dest_, in all
\* three classes.
C13_ZeroTimeSnaps ==
    (/\ prog = "Slew" /\ ev.kind = "Process"
     /\ ev.pre.value # ev.pre.dest
     /\ (IF FlLt(ev.pre.value, ev.pre.dest)
         THEN ev.pre.rise ELSE ev.pre.fall) = FlZero)
        => arg.value = ev.pre.dest

\* C13: reached - a class without the epsilon test divided by fall * sr = 0
\* on the way down, its rise time not being 0, and snapped.
C13_Witness ==
    /\ prog = "Slew" /\ ev.kind = "Process"
    /\ arg.impl = "FractalZoom"
    /\ FlGt(ev.pre.value, ev.pre.dest)
    /\ ev.pre.fall = FlZero /\ ev.pre.rise # FlZero
    /\ arg.value = ev.pre.dest

\* C14: with the root at None the frequency returned lies in [50, 2000] Hz:
\* QuantizeFractal(v) for every v, clamped or not, and RandomQuantizedFreq
\* with g_rootIndex = 0 for every seed and either setting of g_justOn, which
\* also advances the seed by exactly one draw.
C14_FreeRange ==
    (/\ prog = "Quant" /\ res # <<>>
     /\ arg.fn \in {"QuantizeFractal", "RandomQuantizedFreq"})
        => /\ FlLe(IntToFl(50), res.out) /\ FlLe(res.out, IntToFl(2000))
           /\ arg.fn = "RandomQuantizedFreq" =>
                 /\ res.seed = LCG_Next(res.in)
                 /\ Len(res.draws) = 1

\* C14: reached - with the just switch on, the largest draw (2^24 - 1)/2^24
\* gave a frequency just below 2000 Hz.
C14_Witness ==
    /\ prog = "Quant" /\ res # <<>>
    /\ arg.fn = "RandomQuantizedFreq" /\ arg.justOn
    /\ res.draws = <<16777215>>
    /\ FlGt(res.out, IntToFl(1999)) /\ FlLt(res.out, IntToFl(2000))

Quantizers == {"QuantizeFractal", "QuantizeCV", "QuantizeJustMajor"}

\* C15 (as claimed): every quantizer applied to its own output returns that
\* output: QuantizeFractal, QuantizeCV in both modes, QuantizeJustMajor.
C15_AllIdempotent ==
    (prog = "Quant" /\ arg.fn \in Quantizers /\ elapsed = 2)
        => res.out = res.in

\* C15 (amended): QuantizeCV applied to its own output returns that output,
\* in both modes.  QuantizeFractal and QuantizeJustMajor return a frequency
\* in Hz, which as an argument is clamped to 2: applied to their own output
\* they return their largest value, 2000 Hz and 825 Hz.
C15_OnlyQuantizeCVIdempotent ==
    (prog = "Quant" /\ arg.fn \in Quantizers /\ elapsed = 2)
        => /\ arg.fn = "QuantizeCV" => res.out = res.in
           /\ arg.fn = "QuantizeFractal" => res.out = IntToFl(2000)
           /\ arg.fn = "QuantizeJustMajor" => res.out = IntToFl(825)

\* C15: reached - QuantizeCV in just mode moved its argument to a just
\* interval that is not a multiple of 1/12 V, and returned it unchanged when
\* applied to it.
C15_Witness ==
    /\ prog = "Quant" /\ arg.fn = "QuantizeCV" /\ arg.just /\ elapsed = 2
    /\ res.first # res.in
    /\ res.in = FlAdd(IntToFl(3), justRatiosLog2[4])
    /\ res.out = res.in

\* a first call of QuantizeCV in equal-tempered mode has returned
EqualTemperedCall ==
    prog = "Quant" /\ arg.fn = "QuantizeCV" /\ ~arg.just /\ elapsed = 1

\* C16 (as claimed): QuantizeCV(v, false) is within 1/24 of v, and for
\* v = k/12, k in 0..24, it is exactly v.
C16_ExactSemitone ==
    EqualTemperedCall
        => /\ FlLe(FlAbs(FlSub(res.out, res.in)), FlDiv(FlOne, IntToFl(24)))
           /\ \A k \in 0..24 :
                 res.in = FlDiv(IntToFl(k), IntToFl(12)) => res.out = res.in

\* C16 (amended): QuantizeCV(v, false), v negative or not, is the float
\* sum octave + s/12 for an integer octave and s in 0..11, within 1/24 of v
\* up to binary32 rounding (2^-21 for these inputs), which makes it a
\* multiple of 1/12 nearest to v; for v = k/12, k in 0..24, it is v or, for
\* k = 19, 20, 22 and 23, the float next to v.
C16_NearestSemitone ==
    EqualTemperedCall
        => /\ \E o \in (0 - 3)..9, s \in 0..11 :
                 res.out = FlAdd(IntToFl(o), FlDiv(IntToFl(s), IntToFl(12)))
           /\ FlLe(FlAbs(FlSub(res.out, res.in)),
                   FlAdd(FlDiv(FlOne, IntToFl(24)), Fl(1, 0 - 21)))
           /\ \A k \in 0..24 :
                 res.in = FlDiv(IntToFl(k), IntToFl(12)) =>
                    /\ FlLe(FlAbs(FlSub(res.out, res.in)), Fl(1, 0 - 23))
                    /\ k \notin {19, 20, 22, 23} => res.out = res.in

\* C16: reached - the negative input -2^-30 lies in octave -1 with a
\* fraction that rounds to semitone 12, carried: the result is 0 (octave 0,
\* semitone 0).
C16_Witness ==
    /\ EqualTemperedCall
    /\ res.in = FlM(1, 0 - 30)
    /\ res.out = FlZero

\* a first call of QuantizeJustMajor has returned
JustMajorCall ==
    prog = "Quant" /\ arg.fn = "QuantizeJustMajor" /\ elapsed = 1

\* C17 (as claimed): QuantizeJustMajor(0.0) returns gBaseFreq (ratio 1.0).
C17_ZeroGivesBase ==
    (JustMajorCall /\ res.in = FlZero) => res.out = gBaseFreq

\* C17 (amended): QuantizeJustMajor(0.0) returns 4 * gBaseFreq, 220 Hz (step
\* 14, the root two octaves up); the input that gives gBaseFreq (ratio 1.0)
\* is -2.0.
C17_ZeroGivesTwoOctavesUp ==
    JustMajorCall
        => /\ res.in = FlZero => res.out = FlMul(IntToFl(4), gBaseFreq)
           /\ res.in = FlM(1, 1) => res.out = gBaseFreq

\* C17: reached - QuantizeJustMajor(0.0) returned 220 Hz.
C17_Witness ==
    /\ JustMajorCall
    /\ res.in = FlZero
    /\ res.out = IntToFl(220)

\* min(27, floor((clamp(v, -2, 2) + 2) * 7)), each operation rounded to
\* binary32
JustMajorFormulaStep(v) ==
    LET c == IF FlLt(v, FlM(1, 1)) THEN FlM(1, 1)
             ELSE IF FlGt(v, Fl(1, 1)) THEN Fl(1, 1) ELSE v
        f == FlFloor(FlMul(FlAdd(c, Fl(1, 1)), IntToFl(7)))
    IN  IF f > 27 THEN 27 ELSE f

\* min(27, floor((clamp(v, -2, 2) + 2) * 7)) in exact arithmetic:
\* 14 + floor(7 * m / 2^k) for the clamped v = m / 2^k
JustMajorExactStep(v) ==
    LET c == IF FlLt(v, FlM(1, 1)) THEN FlM(1, 1)
             ELSE IF FlGt(v, Fl(1, 1)) THEN Fl(1, 1) ELSE v
        f == IF c.e >= 0 THEN 14 + 7 * c.m * 2^c.e
             ELSE IF c.e < 0 - 30 THEN (IF c.m < 0 THEN 13 ELSE 14)
             ELSE 14 + ((7 * c.m) \div 2^(0 - c.e))
    IN  IF f > 27 THEN 27 ELSE f

\* gBaseFreq * R[step mod 7] * 2^(step div 7)
JustMajorFormula(st) ==
    FlMul(gBaseFreq, FlMul(majorJust7_scale[st % 7], IntToFl(2^(st \div 7))))

\* C18 (as claimed): QuantizeJustMajor(v) = gBaseFreq * R[step mod 7] *
\* 2^(step div 7) with step = min(27, floor((clamp(v, -2, 2) + 2) * 7)),
\* which lies in 0..27; the if-chain gives R[s mod 7] * 2^(s div 7) for
\* every s in 0..27; and the result is non-decreasing in v.
C18_ExactStepFormula ==
    JustMajorCall
        => /\ JustMajorExactStep(res.in) \in 0..27
           /\ res.out = JustMajorFormula(JustMajorExactStep(res.in))
           /\ \A s \in 0..27 :
                 FlMul(gBaseFreq, JustMajorRatio(s)) = JustMajorFormula(s)
           /\ \A w \in JustMajorInputs :
                 FlLe(w, res.in) => FlLe(QuantizeJustMajor(w), res.out)

\* C18 (amended): the same with the step computed in binary32 (the sum
\* v + 2 and the product by 7 are rounded before the floor): that step is
\* the exact one or the next one up, lies in 0..27, the if-chain agrees
\* with R[s mod 7] * 2^(s div 7) for every s in 0..27, and the result is
\* non-decreasing in v.
C18_JustMajorFormula ==
    JustMajorCall
        => /\ LET st == JustMajorFormulaStep(res.in)
                  ex == JustMajorExactStep(res.in)
              IN  /\ st \in 0..27
                  /\ st \in {ex, IF ex < 27 THEN ex + 1 ELSE 27}
                  /\ res.out = JustMajorFormula(st)
           /\ \A s \in 0..27 :
                 FlMul(gBaseFreq, JustMajorRatio(s)) = JustMajorFormula(s)
           /\ \A w \in JustMajorInputs :
                 FlLe(w, res.in) => FlLe(QuantizeJustMajor(w), res.out)

\* C18: reached - for the largest negative float the sum v + 2 rounds to
\* 2.0 and the step is 14, 220 Hz, where the exact floor is 13.
C18_Witness ==
    /\ JustMajorCall
    /\ res.in = FlM(1, FlMinExp)
    /\ JustMajorExactStep(res.in) = 13
    /\ res.out = IntToFl(220)

\* floor(n * m / 2^k) for 0 <= m < 2^24 and 0 < n < 2^12, in integers that
\* stay below 2^31
FloorMulShr(n, m, k) ==
    IF k < 12 THEN (n * m) \div 2^k
    ELSE LET top == n * (m \div 2^12) + ((n * (m % 2^12)) \div 2^12)
         IN  IF k - 12 > 30 THEN 0 ELSE top \div 2^(k - 12)

\* floor(clamp(v, 0, 5) / 5 * 4095) in exact arithmetic: 4095 / 5 = 819
ExactDacCode(v) ==
    IF v.m <= 0 THEN 0
    ELSE IF FlGt(v, IntToFl(5)) THEN 4095
    ELSE IF v.e >= 0 THEN 819 * v.m * 2^v.e
    ELSE FloorMulShr(819, v.m, 0 - v.e)

\* a code has been written by Randos
VoltsToDacCall ==
    prog = "Quant" /\ arg.fn = "VoltsToDac" /\ elapsed >= 1

\* a JustInTone callback has written its two codes
JustInToneCall ==
    prog = "Quant" /\ arg.fn = "AudioCallback" /\ elapsed >= 1

\* C19 (as claimed): every DAC code is in 0..4095; VoltsToDac(v) is
\* floor(clamp(v, 0, 5) / 5 * 4095), 0 at 0 V and 4095 at 5 V; both
\* JustInTone codes are in 0..4095 for a knob in [0, 1].
C19_ExactFloorCode ==
    /\ VoltsToDacCall
         => /\ res.code \in 0..4095
            /\ res.code = ExactDacCode(res.in)
            /\ res.in = FlZero => res.code = 0
            /\ res.in = IntToFl(5) => res.code = 4095
    /\ JustInToneCall
         => res.eqDac \in 0..4095 /\ res.justDac \in 0..4095

\* C19 (amended): every DAC code is in 0..4095; VoltsToDac(v) is the exact
\* floor(clamp(v, 0, 5) / 5 * 4095) or one above it (the quotient and the
\* product are rounded to binary32), 0 for v <= 0 and 4095 for v >= 5,
\* and non-decreasing in v; both JustInTone codes are in 0..4095.
C19_CodesIn12Bits ==
    /\ VoltsToDacCall
         => /\ res.code \in 0..4095
            /\ res.code \in {ExactDacCode(res.in),
                             IF ExactDacCode(res.in) < 4095
                             THEN ExactDacCode(res.in) + 1 ELSE 4095}
            /\ FlLe(res.in, FlZero) => res.code = 0
            /\ FlGe(res.in, IntToFl(5)) => res.code = 4095
            /\ \A w \in VoltInputs :
                  FlLe(w, res.in) => VoltsToDac(w) <= res.code
    /\ JustInToneCall
         => res.eqDac \in 0..4095 /\ res.justDac \in 0..4095

\* C19: reached - Randos was given a voltage far above 5 V and wrote the
\* code 4095.
C19_Witness ==
    /\ VoltsToDacCall
    /\ res.in = Fl(1, 20)
    /\ res.code = 4095

\* patch/FractalZoom: the last step was an audio frame that called fBm1D
\* (the note was on and the frame did not end it), and so did the audio
\* frame before it (elapsed counts the frames of the note)
FZ_FbmInTwoFrames ==
    /\ prog = "FractalZoom"
    /\ ev.kind = "Frame" /\ ev.pre.note.on /\ g_note.on
    /\ elapsed >= 2

\* pod/FractalZoom: the last audio frame called fBm1D, and so did the
\* audio frame before it
Pod_FbmInTwoFrames ==
    /\ prog = "Pod"
    /\ res.fbm /\ res.prev

\* C20 (as claimed): in both FractalZoom programs fBm1D is called on
\* evaluation steps only, never on every audio frame: no two audio frames
\* in a row call it.
C20_FbmDecimated ==
    ~FZ_FbmInTwoFrames /\ ~Pod_FbmInTwoFrames

\* Randos: the last step was a call of UpdateEncoderUI
EncoderCall ==
    prog = "RandosUI" /\ ev.kind = "Encoder"

\* g_uiMode after the press handling of a call made in state ui
ModeAfterPress(ui, pressed) ==
    IF ~ui.g_prevPress /\ pressed
    THEN CASE ui.g_uiMode = 0 -> 1
           [] ui.g_uiMode = 1 -> 2
           [] ui.g_uiMode = 2 -> 3
           [] OTHER           -> 0
    ELSE ui.g_uiMode

\* C21 (as claimed): in Randos no encoder action changes g_rootIndex,
\* g_octRange or g_justOn while g_note.on is true.
C21_ConfigReadOnlyDuringNote ==
    (EncoderCall /\ res.note.on)
        => /\ g_rootIndex = res.ui.g_rootIndex
           /\ arg.g_octRange = res.ui.g_octRange
           /\ g_justOn = res.ui.g_justOn

\* C28: after any sequence of encoder presses and turns g_rootIndex is in
\* 0..12, g_octRange is a multiple of 0.5 in [0.5, 6], g_uiMode is in 0..3,
\* and a call advances g_uiMode cyclically by one on a rising edge of the
\* press and leaves it alone otherwise (press held, released or idle).
C28_UIInvariant ==
    prog = "RandosUI"
        => /\ g_rootIndex \in 0..12
           /\ arg.g_octRange \in { FlCanon(k, 0 - 1) : k \in 1..12 }
           /\ arg.g_uiMode \in 0..3
           /\ EncoderCall
                => /\ arg.g_uiMode = ModeAfterPress(res.ui, res.pressed)
                   /\ arg.g_prevPress = res.pressed

\* C28: reached - a press in mode 3 took the UI back to mode 0, where the
\* same call's turn of INT_MAX detents from root 1 (a sum that overflows
\* the int) left the root at 12.
C28_Witness ==
    /\ EncoderCall
    /\ res.ui.g_uiMode = 3 /\ ~res.ui.g_prevPress /\ res.pressed
    /\ arg.g_uiMode = 0
    /\ res.inc = IntMax /\ res.ui.g_rootIndex = 1
    /\ g_rootIndex = 12

\* C29: a call with a nonzero increment changes only the parameter selected
\* by the mode in force when the turn is handled (mode 0 the root, mode 1
\* the range, mode 2 toggles g_justOn once whatever the increment, mode 3
\* nothing); the turn does not change the mode, and the note and the gate
\* stay as they were.
C29_TurnEditsSelectedOnly ==
    (EncoderCall /\ res.inc # 0)
        => /\ g_note = res.note /\ gate = res.gate
           /\ arg.g_uiMode = ModeAfterPress(res.ui, res.pressed)
           /\ arg.g_uiMode # 0 => g_rootIndex = res.ui.g_rootIndex
           /\ arg.g_uiMode # 1 => arg.g_octRange = res.ui.g_octRange
           /\ arg.g_uiMode # 2 => g_justOn = res.ui.g_justOn
           /\ arg.g_uiMode = 2 => g_justOn = ~res.ui.g_justOn

\* C29: reached - in mode 2 a turn of -INT_MAX detents switched g_justOn
\* off while a note was sounding, the root and the range staying at 3 and
\* 2.5.
C29_Witness ==
    /\ EncoderCall
    /\ arg.g_uiMode = 2 /\ res.inc = 0 - IntMax
    /\ res.ui.g_justOn /\ ~g_justOn
    /\ g_note.on
    /\ g_rootIndex = 3 /\ arg.g_octRange = Fl(5, 0 - 1)

\* the last step handled a NoteOff, or a NoteOn of velocity 0, while the
\* voice was sounding, for a note number other than the one that started
\* the voice
OffForAnotherNote ==
    /\ Patch
    /\ ev.kind = "NoteOff" \/ (ev.kind = "NoteOn" /\ ev.vel = 0)
    /\ ev.pre.note.on
    /\ prog = "Randos" => ev.note # ev.pre.note.midinote
    /\ prog = "FractalZoom" => ev.note # res.started

\* C24 (as claimed): in Randos and patch/FractalZoom an off event for a
\* note other than the one that started the sounding voice leaves the
\* voice on, the gate high and the note state as it was.
C24_OtherNoteOffIgnored ==
    OffForAnotherNote
        => /\ g_note = ev.pre.note
           /\ g_note.on
           /\ gate = ev.pre.gate

\* the greatest major-scale offset <= x, for x in 0..11
MajorOffsetBelow(x) ==
    CHOOSE o \in {0, 2, 4, 5, 7, 9, 11} :
        o <= x /\ \A o2 \in {0, 2, 4, 5, 7, 9, 11} : o2 <= x => o2 <= o

\* RandomQuantizedFreq has returned in 12-TET mode
TwelveTetCall ==
    prog = "Quant" /\ arg.fn = "RootedFreq" /\ ~arg.justOn /\ elapsed >= 1

\* C26 (as claimed): in 12-TET mode with a root the frequency returned is
\* that of a MIDI note whose pitch class is the root plus the greatest
\* major-scale offset <= (position mod 12), the position being the drawn
\* one, in [0, 12 * octRange).
C26_InScale ==
    TwelveTetCall
        => LET pos == FlFloor(FlMul(FlCanon(res.draws[1], 0 - 24),
                                    FlMul(IntToFl(12), arg.octRange)))
           IN  /\ pos >= 0
               /\ FlLt(IntToFl(pos), FlMul(IntToFl(12), arg.octRange))
               /\ \E n \in 0..127 :
                     /\ res.out = MidiToFreq(n)
                     /\ (n - (arg.root - 1)) % 12 = MajorOffsetBelow(pos % 12)

\* A frame of the Randos voice has just run
VoiceFrame == prog = "RandosVoice" /\ ev.kind = "Frame"

\* The phase went down in the last frame: it wrapped
PhaseWrapped == g_note.phase < ev.pre.note.phase

\* The seed and draw of the k-th call of Rand01 in a chain begun at seed
RECURSIVE NthDraw(_, _)
NthDraw(seed, k) ==
    IF k = 1 THEN Rand01(seed) ELSE Rand01(NthDraw(seed, k - 1).seed)

\* C25: in Randos, after every frame of a sounding note the phase is in
\* [0, 1); on the frames where the phase wraps the generator is advanced for
\* the pitch target (two draws in just intonation with a root, else one),
\* then for CV2, then for CV1, and the three slew destinations are the
\* targets so drawn; on every other frame the seed and the three
\* destinations are what they were.
C25_WrapDrawsTargets ==
    (VoiceFrame /\ ev.pre.note.on)
        => LET pre  == ev.pre
               k    == IF g_rootIndex # 0 /\ g_justOn THEN 2 ELSE 1
               seed == pre.note.seed
               pd   == [i \in 1..k |-> NthDraw(seed, i).ret]
           IN  /\ 0 <= g_note.phase /\ g_note.phase < F32One
               /\ PhaseWrapped =>
                     /\ g_note.seed = NthDraw(seed, k + 2).seed
                     /\ arg.sl.pitchSlew.dest
                           = RandomQuantizedFreq_Value(pd, g_rootIndex,
                                 arg.cfg.octRange, g_justOn)
                     /\ arg.sl.cvSlew2.dest
                           = FlMul(FlCanon(NthDraw(seed, k + 1).ret, 0 - 24),
                                   IntToFl(5))
                     /\ arg.sl.cvSlew1.dest
                           = FlMul(FlCanon(NthDraw(seed, k + 2).ret, 0 - 24),
                                   IntToFl(5))
               /\ ~PhaseWrapped =>
                     /\ g_note.seed = seed
                     /\ arg.sl.pitchSlew.dest = pre.sl.pitchSlew.dest
                     /\ arg.sl.cvSlew1.dest = pre.sl.cvSlew1.dest
                     /\ arg.sl.cvSlew2.dest = pre.sl.cvSlew2.dest

\* A just-intonation note wrapped and drew four numbers
C25_Witness ==
    /\ VoiceFrame /\ ev.pre.note.on /\ PhaseWrapped
    /\ g_justOn /\ g_rootIndex = 1
    /\ g_note.seed = NthDraw(ev.pre.note.seed, 4).seed
    /\ arg.sl.cvSlew1.dest # arg.sl.cvSlew2.dest

\* C27: a frame processed while the voice is idle writes the sample 0 to
\* the four outputs; in Randos it also writes code 0 to both DAC channels
\* and leaves the phase, the seed and the value and destination of the
\* three slew limiters as they were.
C27_IdleFrameSilent ==
    (ev.kind = "Frame" /\ ~ev.pre.note.on)
        => /\ \A c \in 1..4 : res.out[c] = FlZero
           /\ prog = "RandosVoice" =>
                 /\ res.dac1 = 0 /\ res.dac2 = 0
                 /\ g_note.phase = ev.pre.note.phase
                 /\ g_note.seed = ev.pre.note.seed
                 /\ \A s \in {"pitchSlew", "cvSlew1", "cvSlew2"} :
                       /\ arg.sl[s].value = ev.pre.sl[s].value
                       /\ arg.sl[s].dest = ev.pre.sl[s].dest

\* An idle Randos frame with the three slews still short of their targets
C27_Witness ==
    /\ VoiceFrame /\ ~ev.pre.note.on
    /\ \A s \in {"pitchSlew", "cvSlew1", "cvSlew2"} :
          arg.sl[s].value # arg.sl[s].dest
    /\ res.dac1 = 0 /\ res.dac2 = 0

\* C22: with the audio callback free to run between any two statements of
\* HandleMidi, a callback that finds g_note.on true for a note whose NoteOn
\* has set it, and is the first to run since, finds that note's phase 0,
\* its seed (Randos) and the zoom captured for it (patch/FractalZoom).
C22_NoPartialNoteOn ==
    (ev.kind = "Callback" /\ ev.pre.midi.fresh /\ ev.pre.st.note.on)
        => /\ ev.pre.st.note.phase = 0
           /\ prog = "RandosPre" =>
                 /\ ev.pre.st.note.midinote = ev.pre.midi.n
                 /\ ev.pre.st.note.seed
                       = U32(ev.pre.midi.n * SEED_MUL + SEED_ADD)
           /\ prog = "FZPre" =>
                 /\ ev.pre.st.zoomFactor = powf3(knob0)
                 /\ ev.pre.st.zoomPoint = FZ_ZoomPoint(knob1)

\* C23: with the audio callback free to run between any two statements of
\* HandleMidi, whenever HandleMidi is not in the middle of an event the
\* gate is high exactly when g_note.on is true.
C23_GateIffOnBetweenEvents ==
    (prog \in PreProgs /\ arg.todo = <<>>) => (gate <=> g_note.on)

\* C30: in the pod FractalZoom patch 0 <= gLoopT <= gLoopLength after
\* every audio frame, whatever UpdateControls did to gLoopLength between
\* frames.
C30_LoopTimerInRange ==
    (prog = "PodLoop" /\ ev.kind = "Frame")
        => FlLe(FlZero, arg.gLoopT) /\ FlLe(arg.gLoopT, arg.gLoopLength)

====
